---- MODULE Spec2Model ----
(***************************************************************************)
(* The authorization-gated FileSystem of rfielding/webdev:                 *)
(*   fs.FS (Mkdir, OpenFile, RemoveAll, Rename, Stat, Allow, resolve),     *)
(*   DPFile.Readdir, NameFor, and the permission handler wired up by       *)
(*   buildHandler (claimsInContext, regoOf, evalRego).                     *)
(*                                                                         *)
(* A file name is a record [abs, segs]: abs says whether the string starts *)
(* with "/", segs is the sequence of its slash-separated elements.  An     *)
(* element is a sequence of tokens whose concatenation is the element, so  *)
(* that ".__cat.security.rego" is <<".", "__", "cat", ".", "security.rego">>*)
(* and strings.HasPrefix can be computed.  "." is [abs |-> FALSE, segs |-> *)
(* <<>>], "/" is [abs |-> TRUE, segs |-> <<>>], and the empty string is the *)
(* relative name with one empty element.                                   *)
(***************************************************************************)
EXTENDS Integers, Sequences, FiniteSets, TLC

VARIABLES
    root,      \* FS.Root: the string given to buildHandler (-d flag)
    store,     \* the native file system: name -> [kind, data]
    handle,    \* the DPFile returned by the last successful OpenFile
    res,       \* what the last FileSystem call did and returned
    allowLog,  \* the FS.Allow evaluations of the last call
    evalLog,   \* the permission handler's invocations of the last call
    nops,      \* number of calls made so far
    props,     \* what the last DeadProps or Patch call on the handle returned
    tree,      \* what the last CopyFiles or MoveFiles call did and returned
    locksys,   \* the lock manager: the clock, the locks, the last call
    lookup,    \* two claims lookups in progress, step by step
    walk,      \* what the last WalkFS call did and returned
    race       \* two requests in progress on one target, step by step

vars == <<root, store, handle, res, allowLog, evalLog, nops, props, tree,
          locksys, lookup, walk, race>>

\* Number of FileSystem calls in a run.
MaxOps == 2

----------------------------------------------------------------------------
(* Strings and names *)

Dot == [abs |-> FALSE, segs |-> <<>>]
Slash == [abs |-> TRUE, segs |-> <<>>]
EmptyStr == [abs |-> FALSE, segs |-> << <<>> >>]

Rel(segs) == [abs |-> FALSE, segs |-> segs]

\* the tokens of ".__"
SidecarPrefix == <<".", "__">>

\* strings.HasPrefix(s, prefix) on token sequences
HasPrefix(s, prefix) ==
    /\ Len(prefix) <= Len(s)
    /\ SubSeq(s, 1, Len(prefix)) = prefix

\* The characters of a one-element name as tokens: "." for Dot, "/" for Slash.
StrOf(b) ==
    IF b = Dot THEN <<".">>
    ELSE IF b = Slash THEN <<"/">>
    ELSE b.segs[1]

\* path.Dir of a clean name (and of "")
pathDir(name) ==
    IF name.segs = <<>> THEN name
    ELSE [abs |-> name.abs, segs |-> SubSeq(name.segs, 1, Len(name.segs) - 1)]

\* path.Base, as a name of one element; "." for the empty string
pathBase(name) ==
    IF name.segs = <<>> THEN name
    ELSE IF name = EmptyStr THEN Dot
    ELSE Rel(<<name.segs[Len(name.segs)]>>)

\* path.Join(dir, elem) for a clean dir and one element
pathJoin(dir, seg) == [abs |-> dir.abs, segs |-> Append(dir.segs, seg)]

\* path.Clean of a rooted slash path: "." elements dropped, ".." pops
RECURSIVE CleanSegs(_, _)
CleanSegs(todo, done) ==
    IF todo = <<>> THEN done
    ELSE IF Head(todo) = <<".">> THEN CleanSegs(Tail(todo), done)
    ELSE IF Head(todo) = <<"..">> THEN
        CleanSegs(Tail(todo),
                  IF done = <<>> THEN done ELSE SubSeq(done, 1, Len(done) - 1))
    ELSE CleanSegs(Tail(todo), Append(done, Head(todo)))

\* webdav.SlashClean: path.Clean("/" + name)
SlashClean(name) == [abs |-> TRUE, segs |-> CleanSegs(name.segs, <<>>)]

\* filepath.Clean(d.Root)
CleanRoot(r) == [abs |-> r.abs, segs |-> r.segs]

\* d == root, a comparison of strings: a clean name equals the Root string
\* only when the Root string is written clean (no "./", no trailing slash)
SameString(d, r) == ~r.dot /\ ~r.trail /\ d = CleanRoot(r)

----------------------------------------------------------------------------
(* The native store: os.Stat, ioutil.ReadFile, os.Mkdir, os.OpenFile,       *)
(* os.RemoveAll, os.Rename                                                 *)

IsPrefixName(p, q) ==
    /\ p.abs = q.abs
    /\ Len(p.segs) <= Len(q.segs)
    /\ SubSeq(q.segs, 1, Len(p.segs)) = p.segs

Exists(st, name) == name.segs = <<>> \/ name \in DOMAIN st

KindOf(st, name) == IF name.segs = <<>> THEN "dir" ELSE st[name].kind

\* some proper ancestor of name is a plain file
UnderFile(st, name) ==
    \E p \in DOMAIN st :
        /\ st[p].kind = "file"
        /\ p # name
        /\ IsPrefixName(p, name)

\* os.Stat: the kind of the node, or the errno
osStat(st, name) ==
    IF name = EmptyStr THEN "ENOENT"
    ELSE IF Exists(st, name) THEN KindOf(st, name)
    ELSE IF UnderFile(st, name) THEN "ENOTDIR"
    ELSE "ENOENT"

\* ioutil.ReadFile: [err, data]
ReadFile(st, name) ==
    LET k == osStat(st, name) IN
    IF k = "file" THEN [err |-> "nil", data |-> st[name].data]
    ELSE IF k = "dir" THEN [err |-> "EISDIR", data |-> ""]
    ELSE [err |-> k, data |-> ""]

\* os.Mkdir: [err, st]
osMkdir(st, name) ==
    LET k == osStat(st, name)
        pk == osStat(st, pathDir(name)) IN
    IF k \in {"dir", "file"} THEN [err |-> "EEXIST", st |-> st]
    ELSE IF k = "ENOTDIR" \/ pk = "file" THEN [err |-> "ENOTDIR", st |-> st]
    ELSE IF pk # "dir" THEN [err |-> "ENOENT", st |-> st]
    ELSE [err |-> "nil",
          st |-> [n \in DOMAIN st \cup {name} |->
                     IF n = name THEN [kind |-> "dir", data |-> ""] ELSE st[n]]]

\* os.RemoveAll: the node and everything beneath it; nil when absent
osRemoveAll(st, name) ==
    IF osStat(st, name) = "ENOTDIR" THEN [err |-> "ENOTDIR", st |-> st]
    ELSE [err |-> "nil",
          st |-> [n \in {m \in DOMAIN st : ~IsPrefixName(name, m)} |-> st[n]]]

\* os.IsNotExist
IsNotExist(err) == err \in {"ENOENT", "ErrNotExist"}

\* flag & (O_WRONLY | O_RDWR) != 0: the handle can be written
WriteCapable(flag) == "O_WRONLY" \in flag \/ "O_RDWR" \in flag

\* os.OpenFile: [err, st]; O_CREATE makes an empty file, O_TRUNC empties one
osOpenFile(st, name, flag) ==
    LET k == osStat(st, name)
        pk == osStat(st, pathDir(name)) IN
    IF k = "ENOTDIR" THEN [err |-> "ENOTDIR", st |-> st]
    ELSE IF k = "ENOENT" THEN
        IF "O_CREATE" \in flag /\ name # EmptyStr /\ pk = "dir" THEN
            [err |-> "nil",
             st |-> [n \in DOMAIN st \cup {name} |->
                        IF n = name THEN [kind |-> "file", data |-> ""] ELSE st[n]]]
        ELSE [err |-> "ENOENT", st |-> st]
    ELSE IF k = "dir" THEN
        IF WriteCapable(flag) \/ "O_CREATE" \in flag
        THEN [err |-> "EISDIR", st |-> st]
        ELSE [err |-> "nil", st |-> st]
    ELSE IF "O_TRUNC" \in flag /\ WriteCapable(flag) THEN
        [err |-> "nil", st |-> [st EXCEPT ![name].data = ""]]
    ELSE [err |-> "nil", st |-> st]

\* os.Rename: the subtree at oldName moves to newName, replacing a plain file
\* or an empty directory of the same kind
osRename(st, oldName, newName) ==
    LET ok == osStat(st, oldName)
        nk == osStat(st, newName)
        pk == osStat(st, pathDir(newName))
        moved(n) == [abs |-> newName.abs,
                     segs |-> newName.segs \o
                              SubSeq(n.segs, Len(oldName.segs) + 1, Len(n.segs))]
        kept == {n \in DOMAIN st :
                    ~IsPrefixName(oldName, n) /\ ~IsPrefixName(newName, n)}
        sub == {n \in DOMAIN st : IsPrefixName(oldName, n)} IN
    IF ok \notin {"dir", "file"} THEN [err |-> ok, st |-> st]
    ELSE IF newName = EmptyStr \/ pk = "ENOENT" THEN [err |-> "ENOENT", st |-> st]
    ELSE IF pk # "dir" THEN [err |-> "ENOTDIR", st |-> st]
    ELSE IF oldName.segs = <<>> \/ newName.segs = <<>> THEN [err |-> "EBUSY", st |-> st]
    ELSE IF oldName = newName THEN [err |-> "nil", st |-> st]
    ELSE IF IsPrefixName(oldName, newName) THEN [err |-> "EINVAL", st |-> st]
    ELSE IF nk = "dir" /\ ok = "file" THEN [err |-> "EISDIR", st |-> st]
    ELSE IF nk = "file" /\ ok = "dir" THEN [err |-> "ENOTDIR", st |-> st]
    ELSE IF nk = "dir" /\ \E n \in DOMAIN st : n # newName /\ IsPrefixName(newName, n)
        THEN [err |-> "ENOTEMPTY", st |-> st]
    ELSE [err |-> "nil",
          st |-> [n \in kept \cup {moved(m) : m \in sub} |->
                     IF n \in kept THEN st[n]
                     ELSE st[CHOOSE m \in sub : moved(m) = n]]]

\* the names File.Readdir returns: the elements directly beneath a directory
osReaddir(st, name) ==
    {n.segs[Len(n.segs)] : n \in {m \in DOMAIN st : m # name /\ pathDir(m) = name}}

\* ioutil.WriteFile: O_WRONLY|O_CREATE|O_TRUNC, then the data: [err, st]
osWriteFile(st, name, data) ==
    LET written(op) ==
            IF op.err # "nil" THEN op
            ELSE [err |-> "nil", st |-> [op.st EXCEPT ![name].data = data]] IN
    written(osOpenFile(st, name, {"O_WRONLY", "O_CREATE", "O_TRUNC"}))

----------------------------------------------------------------------------
(* Naming conventions of the files attached to a file *)

\* ".__" + ftype, the attachment of a directory
DirSidecar(ftype) == SidecarPrefix \o <<ftype>>

\* ".__" + b + "." + ftype, the attachment of a plain file named b
FileSidecar(b, ftype) == SidecarPrefix \o b \o <<".", ftype>>

\* NameFor: the attachment of kind ftype for name; "" when name cannot be
\* stat'ed.  The arguments of strings.HasPrefix are in the order of the code.
NameFor(st, name, ftype) ==
    LET d == pathDir(name)
        b == pathBase(name) IN
    IF HasPrefix(SidecarPrefix, StrOf(b)) THEN name
    ELSE IF d = Dot THEN Rel(<<StrOf(b), DirSidecar(ftype)>>)
    ELSE LET s == osStat(st, name) IN
         IF s \notin {"dir", "file"} THEN EmptyStr
         ELSE IF s = "dir" THEN pathJoin(name, DirSidecar(ftype))
         ELSE pathJoin(d, FileSidecar(StrOf(b), ftype))

----------------------------------------------------------------------------
(* Decisions: the map[string]interface{} a policy evaluates to *)

AllowCreate == "Create"
AllowRead == "Read"
AllowWrite == "Write"
AllowDelete == "Delete"
AllowStat == "Stat"

\* the values of a decision map: a JSON boolean or a JSON string
BoolVal(b) == [t |-> "bool", b |-> b, s |-> ""]
StrVal(s) == [t |-> "string", b |-> FALSE, s |-> s]

\* the map holding the given <<key, value>> pairs
MapOf(pairs) ==
    [k \in {p[1] : p \in pairs} |-> (CHOOSE p \in pairs : p[1] = k)[2]]

EmptyMap == MapOf({})

\* FS.Allow with a non-boolean value taken for a grant
AllowTruthy(permissions, allow) ==
    /\ allow \in DOMAIN permissions
    /\ permissions[allow].t = "string" \/ permissions[allow].b

\* FS.Allow: v, ok := permissions[allow].(bool); v when ok, else false
Allow(permissions, allow) ==
    LET ok == allow \in DOMAIN permissions /\ permissions[allow].t = "bool" IN
    IF ok THEN permissions[allow].b ELSE FALSE

----------------------------------------------------------------------------
(* The permission handler of buildHandler *)

\* the text of the built-in policy with no privilege
emptyPolicy == "emptyPolicy"

\* ClaimsContext{Claims{Groups: {}}, Action{}}
emptyClaims == [username |-> {}, action |-> [Action |-> "", Name |-> EmptyStr]]

\* json.Unmarshal of a claims file: groups.username, or a decoding error
DecodeClaims(data) ==
    IF data = "claims:rob" THEN [err |-> "nil", username |-> {"rob"}]
    ELSE IF data = "claims:alice" THEN [err |-> "nil", username |-> {"alice"}]
    ELSE [err |-> "invalid", username |-> {}]

\* claimsInContext: [st, claims]; makes the home directory when it is absent
claimsInContext(st, r, username, action) ==
    LET home == pathJoin(CleanRoot(r), <<username>>)
        claimsFile == pathJoin(home, DirSidecar("claims.json"))
        mk == IF IsNotExist(osStat(st, home)) THEN osMkdir(st, home)
              ELSE [err |-> "nil", st |-> st]
        rd == ReadFile(mk.st, claimsFile)
        dec == DecodeClaims(rd.data) IN
    IF mk.err # "nil" THEN [st |-> st, claims |-> emptyClaims]
    ELSE IF rd.err # "nil" THEN [st |-> mk.st, claims |-> emptyClaims]
    ELSE IF dec.err # "nil" THEN [st |-> mk.st, claims |-> emptyClaims]
    ELSE [st |-> mk.st, claims |-> [username |-> dec.username, action |-> action]]

\* The policy documents of the model, by what the evaluator makes of them
\* for a caller whose claims hold groups.username = u:
\*   open      every permission is true for everyone
\*   owner     the README example: Stat = true, Read{true},
\*             Write{username is rob}, Delete{Write}, Banner = "PRIVATE"
\*   private   every permission is defined (true) only for rob
\*   statonly  Stat = true, everything else only for rob
\*   strs      Stat = true, Read = "yes": a string, not a boolean
\*   otherpkg  a module of another package: data.policy is undefined
\*   anything else does not compile
PolicyMap(claims, opaObj) ==
    LET isRob == "rob" \in claims.username
        all == {AllowCreate, AllowRead, AllowWrite, AllowDelete, AllowStat} IN
    IF opaObj = emptyPolicy THEN
        MapOf({<<p, BoolVal(FALSE)>> : p \in all}
              \cup {<<"Banner", StrVal("error")>>,
                    <<"BannerForeground", StrVal("white")>>,
                    <<"BannerBackground", StrVal("black")>>})
    ELSE IF opaObj = "open" THEN MapOf({<<p, BoolVal(TRUE)>> : p \in all})
    ELSE IF opaObj = "owner" THEN
        MapOf({<<p, BoolVal(TRUE)>> :
                   p \in {AllowStat, AllowRead}
                         \cup (IF isRob THEN {AllowWrite, AllowDelete} ELSE {})}
              \cup {<<"Banner", StrVal("PRIVATE")>>})
    ELSE IF opaObj = "private" THEN
        MapOf({<<p, BoolVal(TRUE)>> : p \in (IF isRob THEN all ELSE {})})
    ELSE IF opaObj = "statonly" THEN
        MapOf({<<p, BoolVal(TRUE)>> :
                   p \in {AllowStat} \cup (IF isRob THEN all ELSE {})})
    ELSE MapOf({<<AllowStat, BoolVal(TRUE)>>, <<AllowRead, StrVal("yes")>>})

\* evalRego: [kind, m].  PrepareForEval fails on a text that does not
\* compile; results[0] is an index out of range when the result set is empty.
evalRego(claims, opaObj) ==
    IF opaObj \in {emptyPolicy, "open", "owner", "private", "statonly", "strs"}
    THEN [kind |-> "map", m |-> PolicyMap(claims, opaObj)]
    ELSE IF opaObj = "otherpkg" THEN [kind |-> "panic", m |-> EmptyMap]
    ELSE [kind |-> "err", m |-> EmptyMap]

\* regoOf: [doc, reads, diverges]: the policy text, the files handed to
\* ioutil.ReadFile in order, and whether the recursion comes back to the
\* name it was called with (path.Dir("/") = "/") and so never returns
RECURSIVE regoOf(_, _, _)
regoOf(st, r, name) ==
    LET d == pathDir(name)
        found(regoFile, doc, diverges) ==
            [doc |-> doc, reads |-> <<regoFile>>, diverges |-> diverges]
        inherited(regoFile, up) ==
            [doc |-> up.doc, reads |-> <<regoFile>> \o up.reads,
             diverges |-> up.diverges]
        read(regoFile, rd) ==
            IF d # Dot /\ ~SameString(d, r) /\ IsNotExist(rd.err) THEN
                IF d = name THEN found(regoFile, emptyPolicy, TRUE)
                ELSE inherited(regoFile, regoOf(st, r, d))
            ELSE IF rd.err # "nil" THEN found(regoFile, emptyPolicy, FALSE)
            ELSE found(regoFile, rd.data, FALSE)
        named(regoFile) == read(regoFile, ReadFile(st, regoFile)) IN
    named(NameFor(st, name, "security.rego"))

\* allowed, the FS.PermissionHandler: [st, kind, m] and what it looked at
\* (claims, doc, reads).  kind is "map" when a decision map comes back (empty
\* on an evaluation error), "panic" when evalRego panics, "diverge" when
\* regoOf never returns.  The arguments of evalRego are evaluated left to
\* right: claimsInContext acts on the store before regoOf reads it.
allowed(st, r, username, action) ==
    LET out(c, rg, kind, m) ==
            [st |-> c.st, kind |-> kind, m |-> m, username |-> username,
             name |-> action.Name, claims |-> c.claims.username,
             doc |-> rg.doc, reads |-> rg.reads]
        evaluated(c, rg, e) ==
            IF rg.diverges THEN out(c, rg, "diverge", EmptyMap)
            ELSE IF e.kind = "panic" THEN out(c, rg, "panic", EmptyMap)
            ELSE IF e.kind = "err" THEN out(c, rg, "map", EmptyMap)
            ELSE out(c, rg, "map", e.m)
        resolved(c, rg) == evaluated(c, rg, evalRego(c.claims, rg.doc))
        claimed(c) == resolved(c, regoOf(c.st, r, action.Name)) IN
    claimed(claimsInContext(st, r, username, action))

----------------------------------------------------------------------------
(* fs.FS: the FileSystem methods.  Each yields [err, st, log, evals,       *)
(* opened]: the error returned ("nil" for none, "panic" and "diverge" when  *)
(* the permission handler does not return), the store afterwards, the       *)
(* FS.Allow evaluations made, the permission handler's invocations, and     *)
(* whether a file was opened.                                              *)

\* FS.resolve: "" for a name holding a NUL, else Root joined with the
\* slash-cleaned name
resolve(r, name) ==
    IF name.nul THEN EmptyStr
    ELSE [abs |-> r.abs, segs |-> r.segs \o SlashClean(name).segs]

\* one evaluation d.Allow(ctx, permissions, allow), as logged
Asked(permissions, allow) ==
    [permissions |-> permissions, allow |-> allow,
     result |-> Allow(permissions, allow)]

\* one invocation of the permission handler, as logged (without the store)
Evald(p) ==
    [username |-> p.username, name |-> p.name, kind |-> p.kind, m |-> p.m,
     claims |-> p.claims, doc |-> p.doc, reads |-> p.reads]

Ret(err, st, log, evals) ==
    [err |-> err, st |-> st, log |-> log, evals |-> evals, opened |-> FALSE]

\* what a method returns once the permission handler has come back with
\* no decision map
Aborted(permission) ==
    Ret(permission.kind, permission.st, {}, {Evald(permission)})

Mkdir(st, r, username, name) ==
    LET n == resolve(r, name)
        made(permission, mk) ==
            Ret(mk.err, mk.st, {Asked(permission.m, AllowCreate)},
                {Evald(permission)})
        checked(permission) ==
            IF permission.kind # "map" THEN Aborted(permission)
            ELSE IF ~Allow(permission.m, AllowCreate)
                THEN Ret("ErrNotAllowed", permission.st,
                         {Asked(permission.m, AllowCreate)}, {Evald(permission)})
            ELSE made(permission, osMkdir(permission.st, n)) IN
    IF n = EmptyStr THEN Ret("ErrNotExist", st, {}, {})
    ELSE checked(allowed(st, r, username,
                         [Action |-> AllowCreate, Name |-> pathBase(n)]))

OpenFile(st, r, username, name, flag) ==
    LET n == resolve(r, name)
        rdwr == "O_RDWR" \in flag
        done(permission, log, op) ==
            [err |-> op.err, st |-> op.st, log |-> log,
             evals |-> {Evald(permission)}, opened |-> op.err = "nil"]
        \* on create, ask parent if we can modify it
        create(permission) ==
            IF permission.kind # "map" THEN Aborted(permission)
            ELSE IF rdwr /\ ~Allow(permission.m, AllowCreate)
                THEN Ret("ErrNotAllowed", permission.st,
                         {Asked(permission.m, AllowCreate)}, {Evald(permission)})
            ELSE done(permission,
                      IF rdwr THEN {Asked(permission.m, AllowCreate)} ELSE {},
                      osOpenFile(permission.st, n, flag))
        \* on update, ask file if it can be modified
        update(permission) ==
            IF permission.kind # "map" THEN Aborted(permission)
            ELSE IF ~Allow(permission.m, AllowStat)
                THEN Ret("ErrNotExist", permission.st,
                         {Asked(permission.m, AllowStat)}, {Evald(permission)})
            ELSE IF rdwr /\ ~Allow(permission.m, AllowWrite)
                THEN Ret("ErrNotAllowed", permission.st,
                         {Asked(permission.m, AllowStat),
                          Asked(permission.m, AllowWrite)},
                         {Evald(permission)})
            ELSE done(permission,
                      {Asked(permission.m, AllowStat)}
                      \cup (IF rdwr THEN {Asked(permission.m, AllowWrite)} ELSE {}),
                      osOpenFile(permission.st, n, flag)) IN
    IF n = EmptyStr THEN Ret("ErrNotExist", st, {}, {})
    ELSE IF IsNotExist(osStat(st, n))
        THEN create(allowed(st, r, username,
                            [Action |-> AllowCreate, Name |-> pathDir(n)]))
    ELSE update(allowed(st, r, username, [Action |-> AllowWrite, Name |-> n]))

\* RemoveAll with the removal made before the Delete permission is looked at
RemoveAllEager(st, r, username, name) ==
    LET n == resolve(r, name)
        decided(permission, log, evals, rm) ==
            IF ~Allow(permission.m, AllowStat)
                THEN Ret("ErrNotExist", permission.st,
                         {Asked(permission.m, AllowStat)}, evals)
            ELSE IF ~Allow(permission.m, AllowDelete)
                THEN Ret("ErrNotAllowed", rm.st, log, evals)
            ELSE IF n = CleanRoot(r)
                THEN Ret("ErrInvalid", permission.st, log, evals)
            ELSE Ret(rm.err, rm.st, log, evals)
        checked(permission) ==
            IF permission.kind # "map" THEN Aborted(permission)
            ELSE decided(permission,
                         {Asked(permission.m, AllowStat),
                          Asked(permission.m, AllowDelete)},
                         {Evald(permission)},
                         osRemoveAll(permission.st, n)) IN
    IF n = EmptyStr THEN Ret("ErrNotExist", st, {}, {})
    ELSE checked(allowed(st, r, username, [Action |-> AllowDelete, Name |-> n]))

RemoveAll(st, r, username, name) ==
    LET n == resolve(r, name)
        removed(log, evals, rm) == Ret(rm.err, rm.st, log, evals)
        decided(permission, log, evals) ==
            IF ~Allow(permission.m, AllowStat)
                THEN Ret("ErrNotExist", permission.st,
                         {Asked(permission.m, AllowStat)}, evals)
            ELSE IF ~Allow(permission.m, AllowDelete)
                THEN Ret("ErrNotAllowed", permission.st, log, evals)
            ELSE IF n = CleanRoot(r)
                \* Prohibit removing the virtual root directory.
                THEN Ret("ErrInvalid", permission.st, log, evals)
            ELSE removed(log, evals, osRemoveAll(permission.st, n))
        checked(permission) ==
            IF permission.kind # "map" THEN Aborted(permission)
            ELSE decided(permission,
                         {Asked(permission.m, AllowStat),
                          Asked(permission.m, AllowDelete)},
                         {Evald(permission)}) IN
    IF n = EmptyStr THEN Ret("ErrNotExist", st, {}, {})
    ELSE checked(allowed(st, r, username, [Action |-> AllowDelete, Name |-> n]))

Rename(st, r, username, oldName, newName) ==
    LET o == resolve(r, oldName)
        n == resolve(r, newName)
        renamed(log, evals, mv) == Ret(mv.err, mv.st, log, evals)
        checked2(permission2, log, evals) ==
            IF permission2.kind # "map"
                THEN Ret(permission2.kind, permission2.st, log,
                         evals \cup {Evald(permission2)})
            ELSE IF ~Allow(permission2.m, AllowWrite)
                THEN Ret("ErrNotAllowed", permission2.st,
                         log \cup {Asked(permission2.m, AllowWrite)},
                         evals \cup {Evald(permission2)})
            ELSE IF CleanRoot(r) = o \/ CleanRoot(r) = n
                \* Prohibit renaming from or to the virtual root directory.
                THEN Ret("ErrInvalid", permission2.st,
                         log \cup {Asked(permission2.m, AllowWrite)},
                         evals \cup {Evald(permission2)})
            ELSE renamed(log \cup {Asked(permission2.m, AllowWrite)},
                         evals \cup {Evald(permission2)},
                         osRename(permission2.st, o, n))
        decided(permission, log, evals) ==
            IF ~Allow(permission.m, AllowStat)
                THEN Ret("ErrNotExist", permission.st,
                         {Asked(permission.m, AllowStat)}, evals)
            ELSE IF ~Allow(permission.m, AllowRead)
                THEN Ret("ErrNotAllowed", permission.st, log, evals)
            \* newName = d.resolve(newName); newName != ""
            ELSE IF n # EmptyStr
                THEN Ret("ErrNotAllowed", permission.st, log, evals)
            ELSE checked2(allowed(permission.st, r, username,
                                  [Action |-> AllowCreate, Name |-> n]),
                          log, evals)
        checked(permission) ==
            IF permission.kind # "map" THEN Aborted(permission)
            ELSE decided(permission,
                         {Asked(permission.m, AllowStat),
                          Asked(permission.m, AllowRead)},
                         {Evald(permission)}) IN
    IF o = EmptyStr THEN Ret("ErrNotExist", st, {}, {})
    ELSE checked(allowed(st, r, username, [Action |-> AllowRead, Name |-> o]))

Stat(st, r, username, name) ==
    LET n == resolve(r, name)
        statted(permission, k) ==
            Ret(IF k \in {"dir", "file"} THEN "nil" ELSE k, permission.st,
                {Asked(permission.m, AllowStat)}, {Evald(permission)})
        checked(permission) ==
            IF permission.kind # "map" THEN Aborted(permission)
            ELSE IF ~Allow(permission.m, AllowStat)
                THEN Ret("ErrNotExist", permission.st,
                         {Asked(permission.m, AllowStat)}, {Evald(permission)})
            ELSE statted(permission, osStat(permission.st, n)) IN
    IF n = EmptyStr THEN Ret("ErrNotExist", st, {}, {})
    ELSE checked(allowed(st, r, username, [Action |-> AllowStat, Name |-> n]))

\* DPFile.Readdir: [err, st, log, evals, names].  The handler is asked once
\* per entry, each time about f.F.Name(), the name the file was opened with.
Readdir(st, r, f) ==
    LET out(err, s, log, evals, names) ==
            [err |-> err, st |-> s, log |-> log, evals |-> evals,
             names |-> names]
        filtered(result, permissions) ==
            IF permissions.kind # "map"
                THEN out(permissions.kind, permissions.st, {},
                         {Evald(permissions)}, {})
            ELSE out("nil", permissions.st, {Asked(permissions.m, AllowStat)},
                     {Evald(permissions)},
                     IF Allow(permissions.m, AllowStat) THEN result ELSE {})
        listed(result) ==
            IF result = {} THEN out("nil", st, {}, {}, {})
            ELSE filtered(result,
                          allowed(st, r, f.username,
                                  [Action |-> AllowStat, Name |-> f.name])) IN
    IF osStat(st, f.name) # "dir" THEN out("ENOTDIR", st, {}, {}, {})
    ELSE listed(osReaddir(st, f.name))

----------------------------------------------------------------------------
(* Dead properties: DPFile.DeadProps and DPFile.Patch.  A property file    *)
(* holds the JSON of a map[string]string; a set of dead properties is the   *)
(* function from the Local part of the property names (the Space is always  *)
(* "DAV:") to the InnerXML.                                                *)

PropNames == {"j", "k"}
PropVals == {"v", "v2"}

\* the map[string]string values: the non-nil maps
PropMaps == UNION {[D -> PropVals] : D \in SUBSET PropNames}

\* json.MarshalIndent of a non-nil map: the entries in the order of the keys
JsonOf(m) ==
    LET entry(k) == IF k \in DOMAIN m THEN "(" \o k \o ":" \o m[k] \o ")" ELSE "" IN
    "{" \o entry("j") \o entry("k") \o "}"

\* json.MarshalIndent of a nil map
JsonNull == "null"

\* json.Unmarshal into a map[string]string: [err, m]; null leaves the map nil
jsonUnmarshal(data) ==
    IF data = JsonNull THEN [err |-> "nil", m |-> EmptyMap]
    ELSE IF \E m \in PropMaps : JsonOf(m) = data
        THEN [err |-> "nil", m |-> CHOOSE m \in PropMaps : JsonOf(m) = data]
    ELSE [err |-> "invalid", m |-> EmptyMap]

\* DPFile.DeadProps: the properties of the file behind handle f; never an
\* error
DeadProps(st, f) ==
    LET decoded(dec) == IF dec.err # "nil" THEN EmptyMap ELSE dec.m
        read(rd) ==
            IF rd.err # "nil" THEN EmptyMap ELSE decoded(jsonUnmarshal(rd.data))
        named(propertiesFile) ==
            IF IsNotExist(osStat(st, propertiesFile)) THEN EmptyMap
            ELSE read(ReadFile(st, propertiesFile)) IN
    \* No dead properties on metadata files.
    IF HasPrefix(StrOf(pathBase(f.name)), SidecarPrefix) THEN EmptyMap
    ELSE named(NameFor(st, f.name, "deadproperties.json"))

\* a Proppatch: [Remove, Props], Props a sequence of [name, value]
Prop(k, v) == [name |-> k, value |-> v]
SetProps(ps) == [Remove |-> FALSE, Props |-> ps]

\* DPFile.Patch: [err, st].  retval is an empty slice and writeVal a nil
\* map: writeVal[k.Local] = .. for a current property is an assignment to an
\* entry in a nil map, retval[0] for a patched property an index out of
\* range; both panic.  What is left writes the JSON of the nil map.
Patch(st, f, p) ==
    LET written(wr) ==
            IF wr.err # "nil" THEN [err |-> wr.err, st |-> st]
            ELSE [err |-> "nil", st |-> wr.st]
        patched(current) ==
            IF DOMAIN current # {} THEN [err |-> "panic", st |-> st]
            ELSE IF \E i \in 1..Len(p) : p[i].Props # <<>>
                THEN [err |-> "panic", st |-> st]
            ELSE written(osWriteFile(st, NameFor(st, f.name, "deadproperties.json"),
                                     JsonNull)) IN
    patched(DeadProps(st, f))

----------------------------------------------------------------------------
(* Tree operations: CopyFiles, CopyProps and MoveFiles.  CopyFiles yields   *)
(* the set of its possible outcomes [status, err, st, calls], one for each  *)
(* order in which Readdir may list the children of a directory: the         *)
(* status and error returned, the store afterwards, and the invocations of  *)
(* CopyFiles made, each with its recursion argument, the status it          *)
(* returned and whether it went on to open its source.                      *)

StatusCreated == 201
StatusNoContent == 204
StatusForbidden == 403
StatusNotFound == 404
StatusConflict == 409
StatusPreconditionFailed == 412
StatusInternalServerError == 500

\* no status: the call did not return (a panic, or a regoOf that never ends)
NoStatus == 0

InfiniteDepth == -1

RecursionCeiling == 1000

\* recursion == 1000
TooDeep(recursion) == recursion = RecursionCeiling

\* the method did not return
Stopped(err) == err \in {"panic", "diverge"}

\* the properties of map m as a []Property
RECURSIVE PropsOf(_)
PropsOf(m) ==
    IF DOMAIN m = {} THEN <<>>
    ELSE LET k == CHOOSE x \in DOMAIN m : TRUE IN
         <<Prop(k, m[k])>> \o PropsOf([x \in DOMAIN m \ {k} |-> m[x]])

\* CopyProps: d.Patch([]Proppatch{{Props: props}}) with the source's
\* properties: [err, st]
CopyProps(st, dst, src) ==
    Patch(st, dst, <<SetProps(PropsOf(DeadProps(st, src)))>>)

\* path.Join(src, name) of request names
JoinName(src, name) ==
    [nul |-> src.nul, segs |-> CleanSegs(Append(src.segs, name), <<>>)]

RECURSIVE CopyFiles(_, _, _, _, _, _, _, _)
RECURSIVE CopyChildren(_, _, _, _, _, _, _, _, _)

\* for _, c := range children: the outcomes of copying the children todo in
\* every order, stopping at the first error; status NoStatus with err "nil"
\* when every child was copied
CopyChildren(st, r, username, src, dst, overwrite, depth, recursion, todo) ==
    LET rest(c, o) ==
            IF o.err # "nil" THEN {o}
            ELSE {[status |-> n.status, err |-> n.err, st |-> n.st,
                   calls |-> o.calls \cup n.calls] :
                      n \in CopyChildren(o.st, r, username, src, dst, overwrite,
                                         depth, recursion, todo \ {c})} IN
    IF todo = {} THEN {[status |-> NoStatus, err |-> "nil", st |-> st, calls |-> {}]}
    ELSE UNION {UNION {rest(c, o) :
                          o \in CopyFiles(st, r, username, JoinName(src, c),
                                          JoinName(dst, c), overwrite, depth,
                                          recursion)} : c \in todo}

CopyFiles(st, r, username, src, dst, overwrite, depth, recursion) ==
    LET s == resolve(r, src)
        d == resolve(r, dst)
        srcFile == [name |-> s, username |-> username, flag |-> {}]
        dstFile == [name |-> d, username |-> username,
                    flag |-> {"O_RDWR", "O_CREATE", "O_TRUNC"}]
        call(status, opened) ==
            [src |-> src, dst |-> dst, recursion |-> recursion,
             status |-> status, opened |-> opened]
        out(status, err, s1) ==
            [status |-> status, err |-> err, st |-> s1,
             calls |-> {call(status, TRUE)}]
        finish(created, s1) ==
            IF created THEN out(StatusCreated, "nil", s1)
            ELSE out(StatusNoContent, "nil", s1)
        \* the children are copied with recursion + 1
        looped(created, o) ==
            [status |-> IF o.err # "nil" THEN o.status
                        ELSE finish(created, o.st).status,
             err |-> o.err, st |-> o.st,
             calls |-> o.calls
                       \cup {call(IF o.err # "nil" THEN o.status
                                  ELSE finish(created, o.st).status, TRUE)}]
        listed(created, l) ==
            IF Stopped(l.err) THEN {out(NoStatus, l.err, l.st)}
            ELSE IF l.err # "nil" THEN {out(StatusForbidden, l.err, l.st)}
            ELSE {looped(created, o) :
                     o \in CopyChildren(l.st, r, username, src, dst, overwrite,
                                        depth, recursion + 1, l.names)}
        \* a directory removed while open lists nothing: ENOENT
        made(created, gone, m) ==
            IF Stopped(m.err) THEN {out(NoStatus, m.err, m.st)}
            ELSE IF m.err # "nil" THEN {out(StatusForbidden, m.err, m.st)}
            ELSE IF depth # InfiniteDepth THEN {finish(created, m.st)}
            ELSE IF gone THEN {out(StatusForbidden, "ENOENT", m.st)}
            ELSE listed(created, Readdir(m.st, r, srcFile))
        propped(created, p) ==
            IF Stopped(p.err) THEN {out(NoStatus, p.err, p.st)}
            ELSE IF p.err # "nil"
                THEN {out(StatusInternalServerError, p.err, p.st)}
            ELSE {finish(created, p.st)}
        \* io.Copy(dstFile, srcFile), then CopyProps(dstFile, srcFile)
        written(created, data, o) ==
            IF Stopped(o.err) THEN {out(NoStatus, o.err, o.st)}
            ELSE IF IsNotExist(o.err) THEN {out(StatusConflict, o.err, o.st)}
            ELSE IF o.err # "nil" THEN {out(StatusForbidden, o.err, o.st)}
            ELSE propped(created,
                         CopyProps([o.st EXCEPT ![d].data = data], dstFile, srcFile))
        copied(created, gone, kind, data, s1) ==
            IF kind = "dir"
            THEN made(created, gone, Mkdir(s1, r, username, dst))
            ELSE written(created, data,
                         OpenFile(s1, r, username, dst,
                                  {"O_RDWR", "O_CREATE", "O_TRUNC"}))
        removed(kind, data, rm) ==
            IF Stopped(rm.err) THEN {out(NoStatus, rm.err, rm.st)}
            ELSE IF rm.err # "nil" /\ ~IsNotExist(rm.err)
                THEN {out(StatusForbidden, rm.err, rm.st)}
            ELSE copied(FALSE, rm.err = "nil" /\ IsPrefixName(d, s), kind, data,
                        rm.st)
        statted(kind, data, sd) ==
            IF Stopped(sd.err) THEN {out(NoStatus, sd.err, sd.st)}
            ELSE IF IsNotExist(sd.err) THEN copied(TRUE, FALSE, kind, data, sd.st)
            ELSE IF sd.err # "nil" THEN {out(StatusForbidden, sd.err, sd.st)}
            ELSE IF ~overwrite
                THEN {out(StatusPreconditionFailed, "ErrExist", sd.st)}
            ELSE removed(kind, data, RemoveAll(sd.st, r, username, dst))
        \* srcStat, and the bytes the open source file holds
        opened(o) ==
            IF Stopped(o.err) THEN {out(NoStatus, o.err, o.st)}
            ELSE IF IsNotExist(o.err) THEN {out(StatusNotFound, o.err, o.st)}
            ELSE IF o.err # "nil"
                THEN {out(StatusInternalServerError, o.err, o.st)}
            ELSE statted(KindOf(o.st, s),
                         IF KindOf(o.st, s) = "file" THEN o.st[s].data ELSE "",
                         Stat(o.st, r, username, dst)) IN
    IF TooDeep(recursion)
    THEN {[status |-> StatusInternalServerError, err |-> "ErrRecursionTooDeep",
           st |-> st,
           calls |-> {call(StatusInternalServerError, FALSE)}]}
    ELSE opened(OpenFile(st, r, username, src, {}))

\* MoveFiles removing an existing destination whatever overwrite says
MoveFilesOverwriting(st, r, username, src, dst, overwrite) ==
    LET out(status, err, s1, renames) ==
            [status |-> status, err |-> err, st |-> s1, renames |-> renames]
        renamed(created, mv) ==
            IF Stopped(mv.err) THEN out(NoStatus, mv.err, mv.st, 1)
            ELSE IF mv.err # "nil" THEN out(StatusForbidden, mv.err, mv.st, 1)
            ELSE IF created THEN out(StatusCreated, "nil", mv.st, 1)
            ELSE out(StatusNoContent, "nil", mv.st, 1)
        removed(rm) ==
            IF Stopped(rm.err) THEN out(NoStatus, rm.err, rm.st, 0)
            ELSE IF rm.err # "nil" THEN out(StatusForbidden, rm.err, rm.st, 0)
            ELSE renamed(FALSE, Rename(rm.st, r, username, src, dst))
        statted(sd) ==
            IF Stopped(sd.err) THEN out(NoStatus, sd.err, sd.st, 0)
            ELSE IF IsNotExist(sd.err)
                THEN renamed(TRUE, Rename(sd.st, r, username, src, dst))
            ELSE IF sd.err # "nil" THEN out(StatusForbidden, sd.err, sd.st, 0)
            ELSE removed(RemoveAll(sd.st, r, username, dst)) IN
    statted(Stat(st, r, username, dst))

\* MoveFiles: [status, err, st, renames]; renames counts the fs.Rename calls
MoveFiles(st, r, username, src, dst, overwrite) ==
    LET out(status, err, s1, renames) ==
            [status |-> status, err |-> err, st |-> s1, renames |-> renames]
        renamed(created, mv) ==
            IF Stopped(mv.err) THEN out(NoStatus, mv.err, mv.st, 1)
            ELSE IF mv.err # "nil" THEN out(StatusForbidden, mv.err, mv.st, 1)
            ELSE IF created THEN out(StatusCreated, "nil", mv.st, 1)
            ELSE out(StatusNoContent, "nil", mv.st, 1)
        removed(rm) ==
            IF Stopped(rm.err) THEN out(NoStatus, rm.err, rm.st, 0)
            ELSE IF rm.err # "nil" THEN out(StatusForbidden, rm.err, rm.st, 0)
            ELSE renamed(FALSE, Rename(rm.st, r, username, src, dst))
        statted(sd) ==
            IF Stopped(sd.err) THEN out(NoStatus, sd.err, sd.st, 0)
            ELSE IF IsNotExist(sd.err)
                THEN renamed(TRUE, Rename(sd.st, r, username, src, dst))
            ELSE IF sd.err # "nil" THEN out(StatusForbidden, sd.err, sd.st, 0)
            ELSE IF overwrite THEN removed(RemoveAll(sd.st, r, username, dst))
            ELSE out(StatusPreconditionFailed, "ErrExist", sd.st, 0) IN
    statted(Stat(st, r, username, dst))

----------------------------------------------------------------------------
(* WalkFS: the traversal behind PROPFIND.  The visitor walkFn is given by   *)
(* the names it answers filepath.SkipDir for and by whether it hands an     *)
(* error it is told about back to the walk.  A walk yields the set of its   *)
(* possible outcomes [err, st, calls], one for every order in which Readdir *)
(* may list the children: the error returned, the store afterwards, and the *)
(* calls of the visitor in order, each [name, err, ret].                    *)

SkipDir == "SkipDir"

\* walkFn(name, info, err)
Visit(walkFn, name, err) ==
    IF err # "nil" THEN (IF walkFn.strict THEN err ELSE "nil")
    ELSE IF name \in walkFn.skip THEN SkipDir
    ELSE "nil"

\* the call walkFn(name, info, err) and what it returned
Visited(walkFn, name, err) ==
    [name |-> name, err |-> err, ret |-> Visit(walkFn, name, err)]

\* the depth handed on to the children, were depth 1 not brought down to 0
SameDepth(depth) == depth

\* if depth == 1 { depth = 0 }
NextDepth(depth) == IF depth = 1 THEN 0 ELSE depth

RECURSIVE WalkFS(_, _, _, _, _, _, _)
RECURSIVE WalkChildren(_, _, _, _, _, _, _)

\* for _, fileInfo := range fileInfos, in every order
WalkChildren(st, r, username, depth, name, walkFn, todo) ==
    LET out(err, s1, calls) == [err |-> err, st |-> s1, calls |-> calls]
        rest(c, s1, calls) ==
            {out(n.err, n.st, calls \o n.calls) :
                 n \in WalkChildren(s1, r, username, depth, name, walkFn,
                                    todo \ {c})}
        \* walkFn(filename, fileInfo, err) for a child that cannot be stat'ed
        reported(c, s1, v) ==
            IF v.ret # "nil" /\ v.ret # SkipDir THEN {out(v.ret, s1, <<v>>)}
            ELSE rest(c, s1, <<v>>)
        walked(c, isDir, w) ==
            IF Stopped(w.err) THEN {w}
            ELSE IF w.err # "nil" /\ (~isDir \/ w.err # SkipDir) THEN {w}
            ELSE rest(c, w.st, w.calls)
        statted(c, filename, sd) ==
            IF Stopped(sd.err) THEN {out(sd.err, sd.st, <<>>)}
            ELSE IF sd.err # "nil"
                THEN reported(c, sd.st, Visited(walkFn, filename, sd.err))
            ELSE UNION {walked(c, osStat(sd.st, resolve(r, filename)) = "dir", w) :
                            w \in WalkFS(sd.st, r, username, depth, filename,
                                         osStat(sd.st, resolve(r, filename)) = "dir",
                                         walkFn)}
        child(c, filename) ==
            statted(c, filename, Stat(st, r, username, filename)) IN
    IF todo = {} THEN {out("nil", st, <<>>)}
    ELSE UNION {child(c, JoinName(name, c)) : c \in todo}

\* WalkFS(ctx, fs, depth, name, info, walkFn); isDir is info.IsDir()
WalkFS(st, r, username, depth, name, isDir, walkFn) ==
    LET out(err, s1, calls) == [err |-> err, st |-> s1, calls |-> calls]
        first == Visited(walkFn, name, "nil")
        f == [name |-> resolve(r, name), username |-> username, flag |-> {}]
        \* return walkFn(name, info, err)
        failed(s1, v) == {out(v.ret, s1, <<first, v>>)}
        looped(sub) ==
            {out(o.err, o.st, <<first>> \o o.calls) :
                 o \in WalkChildren(sub.st, r, username, sub.depth, name, walkFn,
                                    sub.names)}
        listed(d1, l) ==
            IF Stopped(l.err) THEN {out(l.err, l.st, <<first>>)}
            ELSE IF l.err # "nil" THEN failed(l.st, Visited(walkFn, name, l.err))
            ELSE looped([st |-> l.st, depth |-> d1, names |-> l.names])
        opened(d1, o) ==
            IF Stopped(o.err) THEN {out(o.err, o.st, <<first>>)}
            ELSE IF o.err # "nil" THEN failed(o.st, Visited(walkFn, name, o.err))
            ELSE listed(d1, Readdir(o.st, r, f)) IN
    IF first.ret # "nil" THEN
        IF isDir /\ first.ret = SkipDir THEN {out("nil", st, <<first>>)}
        ELSE {out(first.ret, st, <<first>>)}
    ELSE IF ~isDir \/ depth = 0 THEN {out("nil", st, <<first>>)}
    ELSE opened(NextDepth(depth), OpenFile(st, r, username, name, {}))

----------------------------------------------------------------------------
(* CopyFiles and FS.OpenFile step by step, for requests that run side by    *)
(* side.  A request in progress is a record q: what was asked (op,           *)
(* username, src, dst, flag, overwrite, depth, recursion), where it stands   *)
(* (pc), its local variables (kind and data of the open source, created,     *)
(* notExist), whether the file behind its open destination has been removed  *)
(* since (stale), the store as it was when it opened the destination (seen,  *)
(* once opened), and what it returned (status, err).  A step yields the set  *)
(* of its outcomes [st, q].                                                  *)

\* the request returns
Ended(q, status, err, st) ==
    [st |-> st, q |-> [q EXCEPT !.pc = "done", !.status = status, !.err = err]]

\* the request goes on at pc
GoesOn(q, pc, st) == [st |-> st, q |-> [q EXCEPT !.pc = pc]]

\* CopyFiles, to the open source: the recursion ceiling, fs.OpenFile(src)
\* and srcFile.Stat()
copyOpen(st, r, q) ==
    LET s == resolve(r, q.src)
        opened(o) ==
            IF Stopped(o.err) THEN Ended(q, NoStatus, o.err, o.st)
            ELSE IF IsNotExist(o.err) THEN Ended(q, StatusNotFound, o.err, o.st)
            ELSE IF o.err # "nil"
                THEN Ended(q, StatusInternalServerError, o.err, o.st)
            ELSE [st |-> o.st,
                  q |-> [q EXCEPT !.pc = "stat", !.kind = KindOf(o.st, s),
                                  !.data = IF KindOf(o.st, s) = "file"
                                           THEN o.st[s].data ELSE ""]] IN
    IF TooDeep(q.recursion)
    THEN {Ended(q, StatusInternalServerError, "ErrRecursionTooDeep", st)}
    ELSE {opened(OpenFile(st, r, q.username, q.src, {}))}

\* the step after the destination is known to be out of the way
copyNext(q) == IF q.kind = "dir" THEN "make" ELSE "create"

\* CopyFiles: fs.Stat(dst), created, and the overwrite test
copyStat(st, r, q) ==
    LET statted(sd) ==
            IF Stopped(sd.err) THEN Ended(q, NoStatus, sd.err, sd.st)
            ELSE IF IsNotExist(sd.err)
                THEN [st |-> sd.st,
                      q |-> [q EXCEPT !.pc = copyNext(q), !.created = TRUE]]
            ELSE IF sd.err # "nil" THEN Ended(q, StatusForbidden, sd.err, sd.st)
            ELSE IF ~q.overwrite
                THEN Ended(q, StatusPreconditionFailed, "ErrExist", sd.st)
            ELSE GoesOn(q, "remove", sd.st) IN
    {statted(Stat(st, r, q.username, q.dst))}

\* CopyFiles: fs.RemoveAll(dst)
copyRemove(st, r, q) ==
    LET removed(rm) ==
            IF Stopped(rm.err) THEN Ended(q, NoStatus, rm.err, rm.st)
            ELSE IF rm.err # "nil" /\ ~IsNotExist(rm.err)
                THEN Ended(q, StatusForbidden, rm.err, rm.st)
            ELSE GoesOn(q, copyNext(q), rm.st) IN
    {removed(RemoveAll(st, r, q.username, q.dst))}

\* if created { return http.StatusCreated, nil }; return http.StatusNoContent, nil
copyFinish(q, st) ==
    Ended(q, IF q.created THEN StatusCreated ELSE StatusNoContent, "nil", st)

\* CopyFiles of a directory: fs.Mkdir(dst) and, with infinite depth, the
\* copies of the children
copyMake(st, r, q) ==
    LET srcFile == [name |-> resolve(r, q.src), username |-> q.username,
                    flag |-> {}]
        looped(o) ==
            IF o.err # "nil" THEN Ended(q, o.status, o.err, o.st)
            ELSE copyFinish(q, o.st)
        listed(l) ==
            IF Stopped(l.err) THEN {Ended(q, NoStatus, l.err, l.st)}
            ELSE IF l.err # "nil" THEN {Ended(q, StatusForbidden, l.err, l.st)}
            ELSE {looped(o) :
                     o \in CopyChildren(l.st, r, q.username, q.src, q.dst,
                                        q.overwrite, q.depth, q.recursion + 1,
                                        l.names)}
        made(m) ==
            IF Stopped(m.err) THEN {Ended(q, NoStatus, m.err, m.st)}
            ELSE IF m.err # "nil" THEN {Ended(q, StatusForbidden, m.err, m.st)}
            ELSE IF q.depth # InfiniteDepth THEN {copyFinish(q, m.st)}
            ELSE listed(Readdir(m.st, r, srcFile)) IN
    made(Mkdir(st, r, q.username, q.dst))

\* CopyFiles of a plain file: fs.OpenFile(dst, O_RDWR|O_CREATE|O_TRUNC)
copyCreate(st, r, q) ==
    LET opened(o) ==
            IF Stopped(o.err) THEN Ended(q, NoStatus, o.err, o.st)
            ELSE IF IsNotExist(o.err) THEN Ended(q, StatusConflict, o.err, o.st)
            ELSE IF o.err # "nil" THEN Ended(q, StatusForbidden, o.err, o.st)
            ELSE [st |-> o.st,
                  q |-> [q EXCEPT !.pc = "write", !.opened = TRUE, !.seen = st]] IN
    {opened(OpenFile(st, r, q.username, q.dst, {"O_RDWR", "O_CREATE", "O_TRUNC"}))}

\* CopyFiles of a plain file: io.Copy(dstFile, srcFile), CopyProps, Close.
\* The bytes go to the file that was opened: to nowhere in the store once
\* that file has been removed.
copyWrite(st, r, q) ==
    LET d == resolve(r, q.dst)
        srcFile == [name |-> resolve(r, q.src), username |-> q.username,
                    flag |-> {}]
        dstFile == [name |-> d, username |-> q.username,
                    flag |-> {"O_RDWR", "O_CREATE", "O_TRUNC"}]
        propped(p) ==
            IF Stopped(p.err) THEN Ended(q, NoStatus, p.err, p.st)
            ELSE IF p.err # "nil"
                THEN Ended(q, StatusInternalServerError, p.err, p.st)
            ELSE copyFinish(q, p.st)
        copied(s1) == propped(CopyProps(s1, dstFile, srcFile)) IN
    {copied(IF q.stale \/ osStat(st, d) # "file" THEN st
            ELSE [st EXCEPT ![d].data = q.data])}

\* FS.OpenFile, to the existence test: resolve and os.Stat(name)
openStat(st, r, q) ==
    LET n == resolve(r, q.dst) IN
    IF n = EmptyStr THEN {Ended(q, NoStatus, "ErrNotExist", st)}
    ELSE {[st |-> st,
           q |-> [q EXCEPT !.pc = "allow",
                           !.notExist = IsNotExist(osStat(st, n))]]}

\* FS.OpenFile: the permission handler is asked about the parent (on
\* create) or about the file (on update), and the answer is looked at
openAllow(st, r, q) ==
    LET n == resolve(r, q.dst)
        rdwr == "O_RDWR" \in q.flag
        create(permission) ==
            IF permission.kind # "map"
                THEN Ended(q, NoStatus, permission.kind, permission.st)
            ELSE IF rdwr /\ ~Allow(permission.m, AllowCreate)
                THEN Ended(q, NoStatus, "ErrNotAllowed", permission.st)
            ELSE GoesOn(q, "osopen", permission.st)
        update(permission) ==
            IF permission.kind # "map"
                THEN Ended(q, NoStatus, permission.kind, permission.st)
            ELSE IF ~Allow(permission.m, AllowStat)
                THEN Ended(q, NoStatus, "ErrNotExist", permission.st)
            ELSE IF rdwr /\ ~Allow(permission.m, AllowWrite)
                THEN Ended(q, NoStatus, "ErrNotAllowed", permission.st)
            ELSE GoesOn(q, "osopen", permission.st) IN
    IF q.notExist
    THEN {create(allowed(st, r, q.username,
                         [Action |-> AllowCreate, Name |-> pathDir(n)]))}
    ELSE {update(allowed(st, r, q.username, [Action |-> AllowWrite, Name |-> n]))}

\* FS.OpenFile: os.OpenFile(name, flag, perm)
openOpen(st, r, q) ==
    LET opened(op) ==
            [st |-> op.st,
             q |-> [q EXCEPT !.pc = "done", !.err = op.err,
                             !.opened = op.err = "nil", !.seen = st]] IN
    {opened(osOpenFile(st, resolve(r, q.dst), q.flag))}

----------------------------------------------------------------------------
(* The lock manager behind webdav.LockSystem (NewMemLS): Create, Refresh   *)
(* and Unlock over locks [token, root, zeroDepth, expiry].  A lock name is  *)
(* the sequence of its elements ("/" is the empty sequence); an expiry of   *)
(* Infinite never comes.  Each operation yields [err, token, locks].        *)

ErrLocked == "ErrLocked"
ErrNoSuchLock == "ErrNoSuchLock"

\* a negative duration means infinite
Infinite == -1

\* name a is name b or an ancestor of it
AtOrAbove(a, b) == Len(a) <= Len(b) /\ SubSeq(b, 1, Len(a)) = a

\* the lock covers name: its root, and for infinite depth everything beneath
Covers(l, name) ==
    IF l.zeroDepth THEN l.root = name ELSE AtOrAbove(l.root, name)

\* a lock test by equality of the roots alone
OverlapsExactly(a, b) == a.root = b.root

\* the subtrees of the two locks overlap
Overlaps(a, b) == Covers(a, b.root) \/ Covers(b, a.root)

\* the lock has expired at time now
Expired(l, now) == l.expiry # Infinite /\ l.expiry <= now

\* the locks still held at now: expiry releases a lock
Live(locks, now) == {l \in locks : ~Expired(l, now)}

\* LockDetails{Root, Duration, ZeroDepth}
LockDetails(lroot, duration, zeroDepth) ==
    [Root |-> lroot, Duration |-> duration, ZeroDepth |-> zeroDepth]

\* Create(now, details): locked when a held lock overlaps
Create(locks, now, token, details) ==
    LET new == [token |-> token, root |-> details.Root,
                zeroDepth |-> details.ZeroDepth,
                expiry |-> IF details.Duration < 0 THEN Infinite
                           ELSE now + details.Duration]
        live == Live(locks, now) IN
    IF \E l \in live : Overlaps(l, new)
    THEN [err |-> ErrLocked, token |-> 0, locks |-> live]
    ELSE [err |-> "nil", token |-> token, locks |-> live \cup {new}]

\* Refresh(now, token, duration): the same lock with a new expiry
Refresh(locks, now, token, duration) ==
    LET live == Live(locks, now)
        renew(l) == IF l.token # token THEN l
                    ELSE [l EXCEPT !.expiry = IF duration < 0 THEN Infinite
                                              ELSE now + duration] IN
    IF ~\E l \in live : l.token = token
    THEN [err |-> ErrNoSuchLock, token |-> token, locks |-> live]
    ELSE [err |-> "nil", token |-> token, locks |-> {renew(l) : l \in live}]

\* Unlock(now, token): the lock is released
Unlock(locks, now, token) ==
    LET live == Live(locks, now) IN
    IF ~\E l \in live : l.token = token
    THEN [err |-> ErrNoSuchLock, token |-> token, locks |-> live]
    ELSE [err |-> "nil", token |-> token,
          locks |-> {l \in live : l.token # token}]

----------------------------------------------------------------------------
(* claimsInContext step by step, as two requests run it side by side: the  *)
(* os.Stat of the home directory, the os.Mkdir, and the reading of the      *)
(* claims file.  Each step yields [pc, st, err, logged, claims]: where the  *)
(* call goes next, the store, the error returned to the caller (none in     *)
(* this code), the error written to the log, and the claims returned.       *)

homeOf(r, username) == pathJoin(CleanRoot(r), <<username>>)

\* os.Stat(path.Dir(claimsFile)); os.IsNotExist(err)
statHome(st, r, username) ==
    [pc |-> IF IsNotExist(osStat(st, homeOf(r, username))) THEN "mkdir" ELSE "read",
     st |-> st, err |-> "nil", logged |-> "nil", claims |-> emptyClaims]

\* os.Mkdir with its failure handed to the caller as an error
makeHomeOrFail(st, r, username) ==
    LET made(mk) ==
            IF mk.err # "nil"
            THEN [pc |-> "done", st |-> st, err |-> mk.err, logged |-> mk.err,
                  claims |-> emptyClaims]
            ELSE [pc |-> "read", st |-> mk.st, err |-> "nil", logged |-> "nil",
                  claims |-> emptyClaims] IN
    made(osMkdir(st, homeOf(r, username)))

\* os.Mkdir(path.Dir(claimsFile), 0744); a failure is logged and the empty
\* claims are returned
makeHome(st, r, username) ==
    LET made(mk) ==
            IF mk.err # "nil"
            THEN [pc |-> "done", st |-> st, err |-> "nil", logged |-> mk.err,
                  claims |-> emptyClaims]
            ELSE [pc |-> "read", st |-> mk.st, err |-> "nil", logged |-> "nil",
                  claims |-> emptyClaims] IN
    made(osMkdir(st, homeOf(r, username)))

\* ioutil.ReadFile(claimsFile) and json.Unmarshal
readClaims(st, r, username, action) ==
    LET decoded(rd, dec) ==
            [pc |-> "done", st |-> st, err |-> "nil",
             logged |-> IF rd.err # "nil" THEN rd.err ELSE dec.err,
             claims |-> IF rd.err # "nil" \/ dec.err # "nil" THEN emptyClaims
                        ELSE [username |-> dec.username, action |-> action]]
        read(rd) == decoded(rd, DecodeClaims(rd.data)) IN
    read(ReadFile(st, pathJoin(homeOf(r, username), DirSidecar("claims.json"))))

----------------------------------------------------------------------------
(* The server: a store served from Root, and callers making one call at a   *)
(* time                                                                    *)

\* the -d flag: "./data" (the default), "data", "/data", "/data/"
RootForms ==
    {[dot |-> TRUE, abs |-> FALSE, segs |-> << <<"data">> >>, trail |-> FALSE],
     [dot |-> FALSE, abs |-> FALSE, segs |-> << <<"data">> >>, trail |-> FALSE],
     [dot |-> FALSE, abs |-> TRUE, segs |-> << <<"data">> >>, trail |-> FALSE],
     [dot |-> FALSE, abs |-> TRUE, segs |-> << <<"data">> >>, trail |-> TRUE]}

Users == {"rob", "alice"}

\* The policy files found in the store at start, as <<at Root, at rob's
\* home, for rob's file cat>> ("none": no such file)
Scenarios ==
    {<<"none", "none", "none">>,
     <<"open", "none", "none">>,
     <<"open", "private", "none">>,
     <<"none", "owner", "none">>,
     <<"none", "owner", "strs">>,
     <<"none", "owner", "malformed">>,
     <<"none", "otherpkg", "none">>,
     <<"open", "owner", "statonly">>}

Name(segs) == [nul |-> FALSE, segs |-> segs]

\* "/", "/rob", "/rob/cat", "/rob/new", "/rob/data", "/rob/../rob/cat", and
\* a name holding a NUL
ReqNames ==
    {Name(<<>>),
     Name(<< <<"rob">> >>),
     Name(<< <<"rob">>, <<"cat">> >>),
     Name(<< <<"rob">>, <<"new">> >>),
     Name(<< <<"rob">>, <<"data">> >>),
     Name(<< <<"rob">>, <<"..">>, <<"rob">>, <<"cat">> >>),
     [nul |-> TRUE, segs |-> << <<"bad">> >>]}

\* destinations given to Rename
DstNames ==
    {Name(<<>>),
     Name(<< <<"rob">>, <<"new">> >>),
     [nul |-> TRUE, segs |-> << <<"bad">> >>]}

\* O_RDONLY; O_RDWR|O_CREATE|O_TRUNC; O_WRONLY|O_CREATE|O_TRUNC;
\* O_WRONLY|O_APPEND
Flags ==
    {{},
     {"O_RDWR", "O_CREATE", "O_TRUNC"},
     {"O_WRONLY", "O_CREATE", "O_TRUNC"},
     {"O_WRONLY", "O_APPEND"}}

File(data) == [kind |-> "file", data |-> data]
Directory == [kind |-> "dir", data |-> ""]

\* The store at start: Root, rob's home with his claims and a file cat, and
\* policy files at Root, at rob's home and for cat as chosen.  alice has no
\* home yet.
InitialStore(r, rootPolicy, dirPolicy, filePolicy) ==
    LET R == CleanRoot(r)
        rob == pathJoin(R, <<"rob">>)
        nodes ==
            {<<R, Directory>>, <<rob, Directory>>,
             <<pathJoin(rob, DirSidecar("claims.json")), File("claims:rob")>>,
             <<pathJoin(rob, <<"cat">>), File("meow")>>}
            \cup (IF rootPolicy = "none" THEN {}
                  ELSE {<<pathJoin(R, DirSidecar("security.rego")),
                          File(rootPolicy)>>})
            \cup (IF dirPolicy = "none" THEN {}
                  ELSE {<<pathJoin(rob, DirSidecar("security.rego")),
                          File(dirPolicy)>>})
            \cup (IF filePolicy = "none" THEN {}
                  ELSE {<<pathJoin(rob, FileSidecar(<<"cat">>, "security.rego")),
                          File(filePolicy)>>}) IN
    MapOf(nodes)

NoFile == [name |-> EmptyStr, username |-> "", flag |-> {}]

NoCall ==
    [op |-> "none", username |-> "", name |-> Name(<<>>), name2 |-> Name(<<>>),
     flag |-> {}, err |-> "nil", pre |-> MapOf({}), names |-> {},
     opened |-> FALSE]

NoProps == [op |-> "none", patch |-> <<>>, err |-> "nil", pre |-> MapOf({})]

NoTree ==
    [op |-> "none", username |-> "", src |-> Name(<<>>), dst |-> Name(<<>>),
     overwrite |-> FALSE, depth |-> 0, recursion |-> 0, status |-> NoStatus,
     err |-> "nil", pre |-> MapOf({}), calls |-> {}, renames |-> 0]

NoLocks ==
    [now |-> 0, locks |-> {}, tokens |-> 0, released |-> {}, refused |-> {},
     op |-> "none",
     details |-> LockDetails(<<>>, Infinite, FALSE), token |-> 0,
     err |-> "nil", pre |-> {}]

NoLookup ==
    [username |-> "", action |-> <<>>, pre |-> MapOf({}),
     pc |-> <<"idle", "idle">>, err |-> <<"nil", "nil">>,
     logged |-> <<"nil", "nil">>, claims |-> <<emptyClaims, emptyClaims>>]

NoWalk ==
    [op |-> "none", username |-> "", name |-> Name(<<>>), depth |-> 0,
     walkFn |-> [skip |-> {}, strict |-> FALSE], err |-> "nil", calls |-> <<>>,
     pre |-> MapOf({})]

NoRequest ==
    [op |-> "none", username |-> "", src |-> Name(<<>>), dst |-> Name(<<>>),
     flag |-> {}, overwrite |-> FALSE, depth |-> 0, recursion |-> 0,
     pc |-> "done", status |-> NoStatus, err |-> "nil", kind |-> "",
     data |-> "", created |-> FALSE, notExist |-> FALSE, stale |-> FALSE,
     opened |-> FALSE, seen |-> MapOf({})]

NoRace == [q |-> <<NoRequest, NoRequest>>, pre |-> MapOf({})]

Init ==
    /\ root \in RootForms
    /\ \E sc \in Scenarios : store = InitialStore(root, sc[1], sc[2], sc[3])
    /\ handle = NoFile
    /\ res = NoCall
    /\ allowLog = {}
    /\ evalLog = {}
    /\ nops = 0
    /\ props = NoProps
    /\ tree = NoTree
    /\ locksys = NoLocks
    /\ lookup = NoLookup
    /\ walk = NoWalk
    /\ race = NoRace

\* The process is up (a regoOf that never returns ends it by exhausting the
\* stack) and the run has calls left
Serving == res.err # "diverge" /\ nops < MaxOps

Called(op, username, name, name2, flag, out) ==
    /\ res' = [op |-> op, username |-> username, name |-> name, name2 |-> name2,
               flag |-> flag, err |-> out.err, pre |-> store, names |-> {},
               opened |-> out.opened]
    /\ store' = out.st
    /\ allowLog' = out.log
    /\ evalLog' = out.evals
    /\ nops' = nops + 1
    /\ UNCHANGED <<root, props, tree, locksys, lookup, walk, race>>

CallMkdir ==
    /\ Serving
    /\ \E u \in Users, name \in ReqNames :
           Called("Mkdir", u, name, name, {}, Mkdir(store, root, u, name))
    /\ UNCHANGED handle

CallOpenFile ==
    /\ Serving
    /\ \E u \in Users, name \in ReqNames, flag \in Flags :
           \E out \in {OpenFile(store, root, u, name, flag)} :
               /\ Called("OpenFile", u, name, name, flag, out)
               /\ handle' = IF out.opened
                            THEN [name |-> resolve(root, name), username |-> u,
                                  flag |-> flag]
                            ELSE handle

CallRemoveAll ==
    /\ Serving
    /\ \E u \in Users, name \in ReqNames :
           Called("RemoveAll", u, name, name, {}, RemoveAll(store, root, u, name))
    /\ UNCHANGED handle

CallRename ==
    /\ Serving
    /\ \E u \in Users, oldName \in ReqNames, newName \in DstNames :
           Called("Rename", u, oldName, newName, {},
                  Rename(store, root, u, oldName, newName))
    /\ UNCHANGED handle

CallStat ==
    /\ Serving
    /\ \E u \in Users, name \in ReqNames :
           Called("Stat", u, name, name, {}, Stat(store, root, u, name))
    /\ UNCHANGED handle

CallReaddir ==
    /\ Serving
    /\ handle # NoFile
    /\ \E out \in {Readdir(store, root, handle)} :
       /\ res' = [op |-> "Readdir", username |-> handle.username,
                  name |-> Name(<<>>), name2 |-> Name(<<>>), flag |-> handle.flag,
                  err |-> out.err, pre |-> store, names |-> out.names,
                  opened |-> FALSE]
       /\ store' = out.st
       /\ allowLog' = out.log
       /\ evalLog' = out.evals
       /\ nops' = nops + 1
    /\ UNCHANGED <<root, handle, props, tree, locksys, lookup, walk, race>>

Next ==
    \/ CallMkdir
    \/ CallOpenFile
    \/ CallRemoveAll
    \/ CallRename
    \/ CallStat
    \/ CallReaddir

Spec == Init /\ [][Next]_vars

----------------------------------------------------------------------------
(* Dead properties: callers open a resource and read or patch its           *)
(* properties through the handle (PROPFIND, PROPPATCH)                      *)

\* Number of calls in a run of the dead-property server.
MaxPropOps == 3

\* "/rob/cat", "/rob" and the metadata file "/rob/.__claims.json"
PropTargets ==
    {Name(<< <<"rob">>, <<"cat">> >>),
     Name(<< <<"rob">> >>),
     Name(<< <<"rob">>, DirSidecar("claims.json") >>)}

\* the property file found beside cat at start ("none": no such file)
PropFiles == {"none", JsonOf(MapOf({<<"j", "v">>}))}

\* the Proppatch lists handed to Patch
PatchInputs ==
    {<<>>,
     <<SetProps(<<>>)>>,
     <<SetProps(<<Prop("k", "v")>>)>>,
     <<SetProps(<<Prop("k", "v2")>>)>>,
     <<SetProps(<<Prop("j", "v2")>>), SetProps(<<Prop("k", "v")>>)>>}

WithPropFile(st, r, data) ==
    LET file == pathJoin(pathJoin(CleanRoot(r), <<"rob">>),
                         FileSidecar(<<"cat">>, "deadproperties.json")) IN
    IF data = "none" THEN st
    ELSE [n \in DOMAIN st \cup {file} |-> IF n = file THEN File(data) ELSE st[n]]

InitProps ==
    /\ root \in RootForms
    /\ \E sc \in Scenarios, data \in PropFiles :
           store = WithPropFile(InitialStore(root, sc[1], sc[2], sc[3]), root, data)
    /\ handle = NoFile
    /\ res = NoCall
    /\ allowLog = {}
    /\ evalLog = {}
    /\ nops = 0
    /\ props = NoProps
    /\ tree = NoTree
    /\ locksys = NoLocks
    /\ lookup = NoLookup
    /\ walk = NoWalk
    /\ race = NoRace

ServingProps == res.err # "diverge" /\ nops < MaxPropOps

\* OpenFile(name, O_RDONLY) or OpenFile(name, O_RDWR)
OpenResource ==
    /\ ServingProps
    /\ \E u \in Users, name \in PropTargets, flag \in {{}, {"O_RDWR"}} :
           \E out \in {OpenFile(store, root, u, name, flag)} :
               /\ res' = [op |-> "OpenFile", username |-> u, name |-> name,
                          name2 |-> name, flag |-> flag, err |-> out.err,
                          pre |-> store, names |-> {}, opened |-> out.opened]
               /\ store' = out.st
               /\ allowLog' = out.log
               /\ evalLog' = out.evals
               /\ handle' = IF out.opened
                            THEN [name |-> resolve(root, name), username |-> u,
                                  flag |-> flag]
                            ELSE handle
    /\ nops' = nops + 1
    /\ UNCHANGED <<root, props, tree, locksys, lookup, walk, race>>

CallDeadProps ==
    /\ ServingProps
    /\ handle # NoFile
    /\ props' = [op |-> "DeadProps", patch |-> <<>>, err |-> "nil", pre |-> store]
    /\ nops' = nops + 1
    /\ UNCHANGED <<root, store, handle, res, allowLog, evalLog, tree, locksys,
                   lookup, walk, race>>

CallPatch ==
    /\ ServingProps
    /\ handle # NoFile
    /\ \E p \in PatchInputs :
           \E out \in {Patch(store, handle, p)} :
               /\ props' = [op |-> "Patch", patch |-> p, err |-> out.err,
                            pre |-> store]
               /\ store' = out.st
    /\ nops' = nops + 1
    /\ UNCHANGED <<root, handle, res, allowLog, evalLog, tree, locksys,
                   lookup, walk, race>>

NextProps ==
    \/ OpenResource
    \/ CallDeadProps
    \/ CallPatch

SpecProps == InitProps /\ [][NextProps]_vars

----------------------------------------------------------------------------
(* Tree operations: callers copy and move resources (COPY, MOVE)            *)

\* Number of calls in a run of the copy and move server.
MaxTreeOps == 2

\* Number of nested CopyFiles calls followed below the ceiling when a
\* directory is copied into itself.
MaxLevels == 2

\* "/rob/cat", "/rob", "/rob/new" (absent at start), "/rob/data", "/bak"
\* and "/nodir/data" (in a directory that is absent at start)
Cat == Name(<< <<"rob">>, <<"cat">> >>)
Home == Name(<< <<"rob">> >>)
New == Name(<< <<"rob">>, <<"new">> >>)
Data == Name(<< <<"rob">>, <<"data">> >>)
Bak == Name(<< <<"bak">> >>)
Orphan == Name(<< <<"nodir">>, <<"data">> >>)

\* The COPY requests.  The handler enters CopyFiles with recursion 0.  The
\* copy of /rob into its own /rob/data, which nests until the ceiling stops
\* it, is entered MaxLevels below the ceiling: the levels before are alike.
CopyRequests ==
    {[src |-> p[1], dst |-> p[2], overwrite |-> o, depth |-> InfiniteDepth,
      recursion |-> 0] :
         p \in {<<Cat, New>>, <<Cat, Cat>>, <<Cat, Data>>, <<Home, New>>,
                <<Home, Cat>>, <<Home, Bak>>, <<New, Cat>>, <<Cat, Orphan>>,
                <<Home, Orphan>>},
         o \in BOOLEAN}
    \cup {[src |-> Home, dst |-> Data, overwrite |-> o, depth |-> 0,
           recursion |-> 0] : o \in BOOLEAN}
    \cup {[src |-> Home, dst |-> Data, overwrite |-> o, depth |-> InfiniteDepth,
           recursion |-> RecursionCeiling - MaxLevels] : o \in BOOLEAN}

\* the MOVE requests
MoveRequests ==
    {[src |-> p[1], dst |-> p[2], overwrite |-> o] :
         p \in {<<Cat, New>>, <<Cat, Cat>>, <<Home, Data>>, <<New, Cat>>},
         o \in BOOLEAN}

InitTree ==
    /\ root \in RootForms
    /\ \E sc \in Scenarios : store = InitialStore(root, sc[1], sc[2], sc[3])
    /\ handle = NoFile
    /\ res = NoCall
    /\ allowLog = {}
    /\ evalLog = {}
    /\ nops = 0
    /\ props = NoProps
    /\ tree = NoTree
    /\ locksys = NoLocks
    /\ lookup = NoLookup
    /\ walk = NoWalk
    /\ race = NoRace

ServingTree == tree.err # "diverge" /\ nops < MaxTreeOps

CallCopyFiles ==
    /\ ServingTree
    /\ \E u \in Users, req \in CopyRequests :
           \E out \in CopyFiles(store, root, u, req.src, req.dst, req.overwrite,
                                req.depth, req.recursion) :
               /\ tree' = [op |-> "CopyFiles", username |-> u, src |-> req.src,
                           dst |-> req.dst, overwrite |-> req.overwrite,
                           depth |-> req.depth, recursion |-> req.recursion,
                           status |-> out.status, err |-> out.err,
                           pre |-> store, calls |-> out.calls, renames |-> 0]
               /\ store' = out.st
    /\ nops' = nops + 1
    /\ UNCHANGED <<root, handle, res, allowLog, evalLog, props, locksys,
                   lookup, walk, race>>

CallMoveFiles ==
    /\ ServingTree
    /\ \E u \in Users, req \in MoveRequests :
           \E out \in {MoveFiles(store, root, u, req.src, req.dst, req.overwrite)} :
               /\ tree' = [op |-> "MoveFiles", username |-> u, src |-> req.src,
                           dst |-> req.dst, overwrite |-> req.overwrite,
                           depth |-> InfiniteDepth, recursion |-> 0,
                           status |-> out.status, err |-> out.err,
                           pre |-> store, calls |-> {}, renames |-> out.renames]
               /\ store' = out.st
    /\ nops' = nops + 1
    /\ UNCHANGED <<root, handle, res, allowLog, evalLog, props, locksys,
                   lookup, walk, race>>

NextTree ==
    \/ CallCopyFiles
    \/ CallMoveFiles

SpecTree == InitTree /\ [][NextTree]_vars

----------------------------------------------------------------------------
(* The lock manager: callers create, refresh and release locks while time   *)
(* passes                                                                  *)

\* Number of lock manager calls in a run.
MaxLockOps == 4

\* Number of locks created in a run.
MaxLocks == 2

\* The clock runs from 0 to MaxTime.
MaxTime == 2

\* "/", "/docs", "/docs/sub", "/other"
LockNames == {<<>>, <<"docs">>, <<"docs", "sub">>, <<"other">>}

\* the lock timeouts asked for: a finite one and the infinite one
Durations == {1, Infinite}

InitLocks ==
    /\ root \in {r \in RootForms : r.dot}
    /\ store = InitialStore(root, "none", "none", "none")
    /\ handle = NoFile
    /\ res = NoCall
    /\ allowLog = {}
    /\ evalLog = {}
    /\ nops = 0
    /\ props = NoProps
    /\ tree = NoTree
    /\ locksys = NoLocks
    /\ lookup = NoLookup
    /\ walk = NoWalk
    /\ race = NoRace

\* what a lock manager call leaves unchanged, and the record it leaves
LockCalled(op, details, out, released) ==
    /\ locksys' = [now |-> locksys.now, locks |-> out.locks,
                   tokens |-> IF op = "Create" /\ out.err = "nil"
                              THEN locksys.tokens + 1 ELSE locksys.tokens,
                   released |-> locksys.released \cup released,
                   refused |-> IF op = "Create" /\ out.err = ErrLocked
                               THEN locksys.refused
                                    \cup {[details |-> details,
                                           locks |-> locksys.locks]}
                               ELSE locksys.refused,
                   op |-> op, details |-> details, token |-> out.token,
                   err |-> out.err, pre |-> locksys.locks]
    /\ nops' = nops + 1
    /\ UNCHANGED <<root, store, handle, res, allowLog, evalLog, props, tree,
                   lookup, walk, race>>

CallCreate ==
    /\ nops < MaxLockOps
    /\ locksys.tokens < MaxLocks
    /\ \E name \in LockNames, duration \in Durations, zeroDepth \in BOOLEAN :
           \E details \in {LockDetails(name, duration, zeroDepth)} :
               LockCalled("Create", details,
                          Create(locksys.locks, locksys.now, locksys.tokens + 1,
                                 details),
                          {})

CallRefresh ==
    /\ nops < MaxLockOps
    /\ \E token \in 1..MaxLocks, duration \in Durations :
           LockCalled("Refresh", LockDetails(<<>>, duration, FALSE),
                      Refresh(locksys.locks, locksys.now, token, duration), {})

CallUnlock ==
    /\ nops < MaxLockOps
    /\ \E token \in 1..MaxLocks :
           \E out \in {Unlock(locksys.locks, locksys.now, token)} :
               LockCalled("Unlock", LockDetails(<<>>, Infinite, FALSE), out,
                          IF out.err = "nil"
                          THEN {l \in locksys.locks : l.token = token} ELSE {})

\* time passes; the locks whose expiry has come are released
Tick ==
    /\ locksys.now < MaxTime
    /\ locksys' = [locksys EXCEPT
                       !.now = @ + 1,
                       !.locks = Live(locksys.locks, locksys.now + 1),
                       !.released = @ \cup (locksys.locks
                                            \ Live(locksys.locks, locksys.now + 1)),
                       !.op = "Tick", !.err = "nil", !.pre = locksys.locks]
    /\ UNCHANGED <<root, store, handle, res, allowLog, evalLog, nops, props,
                   tree, lookup, walk, race>>

NextLocks ==
    \/ CallCreate
    \/ CallRefresh
    \/ CallUnlock
    \/ Tick

SpecLocks == InitLocks /\ [][NextLocks]_vars


----------------------------------------------------------------------------
(* Two requests of the same principal whose claims lookups run side by side *)

\* the two requests
Requests == {1, 2}

\* what each request asks the permission handler about
ActionOf(r, username) ==
    <<[Action |-> AllowStat, Name |-> homeOf(r, username)],
      [Action |-> AllowRead, Name |-> homeOf(r, username)]>>

InitLookup ==
    /\ root \in RootForms
    /\ \E sc \in Scenarios : store = InitialStore(root, sc[1], sc[2], sc[3])
    /\ handle = NoFile
    /\ res = NoCall
    /\ allowLog = {}
    /\ evalLog = {}
    /\ nops = 0
    /\ props = NoProps
    /\ tree = NoTree
    /\ locksys = NoLocks
    /\ \E u \in Users :
           lookup = [username |-> u, action |-> ActionOf(root, u), pre |-> store,
                     pc |-> <<"stat", "stat">>, err |-> <<"nil", "nil">>,
                     logged |-> <<"nil", "nil">>,
                     claims |-> <<emptyClaims, emptyClaims>>]
    /\ walk = NoWalk
    /\ race = NoRace

\* request p has taken the step whose outcome is out
Stepped(p, out) ==
    /\ lookup' = [lookup EXCEPT !.pc[p] = out.pc, !.err[p] = out.err,
                                !.logged[p] = out.logged,
                                !.claims[p] = out.claims]
    /\ store' = out.st
    /\ UNCHANGED <<root, handle, res, allowLog, evalLog, nops, props, tree,
                   locksys, walk, race>>

LookupStat ==
    \E p \in Requests :
        /\ lookup.pc[p] = "stat"
        /\ Stepped(p, statHome(store, root, lookup.username))

LookupMkdir ==
    \E p \in Requests :
        /\ lookup.pc[p] = "mkdir"
        /\ Stepped(p, makeHome(store, root, lookup.username))

LookupRead ==
    \E p \in Requests :
        /\ lookup.pc[p] = "read"
        /\ Stepped(p, readClaims(store, root, lookup.username, lookup.action[p]))

NextLookup ==
    \/ LookupStat
    \/ LookupMkdir
    \/ LookupRead

SpecLookup == InitLookup /\ [][NextLookup]_vars

----------------------------------------------------------------------------
(* Home directories: callers ask for the top-level directory of a user      *)
(* (MKCOL /rob, MKCOL /alice)                                               *)

\* "/rob", "/alice"
HomeNames == {Name(<< <<u>> >>) : u \in Users}

CallMkdirHome ==
    /\ Serving
    /\ \E u \in Users, name \in HomeNames :
           Called("Mkdir", u, name, name, {}, Mkdir(store, root, u, name))
    /\ UNCHANGED handle

NextHome == CallMkdirHome

SpecHome == Init /\ [][NextHome]_vars

----------------------------------------------------------------------------
(* Walks: callers list a resource and what lies beneath it (PROPFIND with   *)
(* Depth 0, 1 or infinity)                                                  *)

\* Number of walks in a run.
MaxWalkOps == 2

\* "/" and "/rob"
WalkStarts == {Name(<<>>), Home}

Depths == {0, 1, InfiniteDepth}

\* visitors: one that skips nothing, one that skips /rob, one that skips
\* /rob/cat, each taking an error it is told about in its stride or handing
\* it back
WalkFns == [skip : {{}, {Home}, {Cat}}, strict : BOOLEAN]

InitWalk ==
    /\ root \in RootForms
    /\ \E sc \in Scenarios : store = InitialStore(root, sc[1], sc[2], sc[3])
    /\ handle = NoFile
    /\ res = NoCall
    /\ allowLog = {}
    /\ evalLog = {}
    /\ nops = 0
    /\ props = NoProps
    /\ tree = NoTree
    /\ locksys = NoLocks
    /\ lookup = NoLookup
    /\ walk = NoWalk
    /\ race = NoRace

\* the caller stats the start node and walks from it with the FileInfo
CallWalkFS ==
    /\ nops < MaxWalkOps
    /\ walk.op = "none"
    /\ \E u \in Users, name \in WalkStarts, depth \in Depths, walkFn \in WalkFns :
           \E sd \in {Stat(store, root, u, name)} :
               /\ sd.err = "nil"
               /\ \E out \in WalkFS(sd.st, root, u, depth, name,
                                    osStat(sd.st, resolve(root, name)) = "dir",
                                    walkFn) :
                      /\ walk' = [op |-> "WalkFS", username |-> u, name |-> name,
                                  depth |-> depth, walkFn |-> walkFn,
                                  err |-> out.err, calls |-> out.calls,
                                  pre |-> sd.st]
                      /\ store' = out.st
    /\ UNCHANGED <<root, handle, res, allowLog, evalLog, nops, props, tree,
                   locksys, lookup, race>>

\* the walk has returned to its caller, and the request is over
ReturnWalkFS ==
    /\ walk.op = "WalkFS"
    /\ walk' = NoWalk
    /\ nops' = nops + 1
    /\ UNCHANGED <<root, store, handle, res, allowLog, evalLog, props, tree,
                   locksys, lookup, race>>

NextWalk ==
    \/ CallWalkFS
    \/ ReturnWalkFS

SpecWalk == InitWalk /\ [][NextWalk]_vars

----------------------------------------------------------------------------
(* Requests side by side: two requests on the same target, "/rob/new",      *)
(* which is absent at start, take their steps in any order.  Each is a COPY  *)
(* to the target or an open of it (GET, PUT).                               *)

Sides == {1, 2}

\* COPY of /rob/cat, or of the directory /rob with depth 0, to /rob/new
CopyAsks ==
    {[op |-> "CopyFiles", username |-> u, src |-> sd[1], dst |-> New,
      flag |-> {}, overwrite |-> o, depth |-> sd[2], recursion |-> 0] :
         u \in Users, sd \in {<<Cat, InfiniteDepth>>, <<Home, 0>>},
         o \in BOOLEAN}

\* OpenFile of /rob/new
OpenAsks ==
    {[op |-> "OpenFile", username |-> u, src |-> Name(<<>>), dst |-> New,
      flag |-> f, overwrite |-> FALSE, depth |-> 0, recursion |-> 0] :
         u \in Users, f \in Flags}

\* the request as it starts
Begin(ask) ==
    [NoRequest EXCEPT !.op = ask.op, !.username = ask.username,
                      !.src = ask.src, !.dst = ask.dst, !.flag = ask.flag,
                      !.overwrite = ask.overwrite, !.depth = ask.depth,
                      !.recursion = ask.recursion,
                      !.pc = IF ask.op = "CopyFiles" THEN "open" ELSE "exists"]

InitRace ==
    /\ root \in RootForms
    /\ \E sc \in Scenarios : store = InitialStore(root, sc[1], sc[2], sc[3])
    /\ handle = NoFile
    /\ res = NoCall
    /\ allowLog = {}
    /\ evalLog = {}
    /\ nops = 0
    /\ props = NoProps
    /\ tree = NoTree
    /\ locksys = NoLocks
    /\ lookup = NoLookup
    /\ walk = NoWalk
    /\ \E a \in CopyAsks, b \in CopyAsks \cup OpenAsks :
           race = [q |-> <<Begin(a), Begin(b)>>, pre |-> store]

\* a regoOf that never returns ends the process
Racing == \A p \in Sides : race.q[p].err # "diverge"

\* request p stands at pc of op
At(p, op, pc) == Racing /\ race.q[p].op = op /\ race.q[p].pc = pc

\* request p has taken the step whose outcome is out; a request whose open
\* destination this step removed holds a file that is no longer in the store
Took(p, out) ==
    LET d(q) == resolve(root, q.dst)
        gone(q) == /\ q.opened
                   /\ osStat(store, d(q)) = "file"
                   /\ osStat(out.st, d(q)) # "file" IN
    /\ race' = [race EXCEPT
                   !.q = [x \in Sides |->
                             IF x = p THEN out.q
                             ELSE [race.q[x] EXCEPT
                                      !.stale = @ \/ gone(race.q[x])]]]
    /\ store' = out.st
    /\ UNCHANGED <<root, handle, res, allowLog, evalLog, nops, props, tree,
                   locksys, lookup, walk>>

RaceCopyOpen ==
    \E p \in Sides :
        /\ At(p, "CopyFiles", "open")
        /\ \E out \in copyOpen(store, root, race.q[p]) : Took(p, out)

RaceCopyStat ==
    \E p \in Sides :
        /\ At(p, "CopyFiles", "stat")
        /\ \E out \in copyStat(store, root, race.q[p]) : Took(p, out)

RaceCopyRemove ==
    \E p \in Sides :
        /\ At(p, "CopyFiles", "remove")
        /\ \E out \in copyRemove(store, root, race.q[p]) : Took(p, out)

RaceCopyMake ==
    \E p \in Sides :
        /\ At(p, "CopyFiles", "make")
        /\ \E out \in copyMake(store, root, race.q[p]) : Took(p, out)

RaceCopyCreate ==
    \E p \in Sides :
        /\ At(p, "CopyFiles", "create")
        /\ \E out \in copyCreate(store, root, race.q[p]) : Took(p, out)

RaceCopyWrite ==
    \E p \in Sides :
        /\ At(p, "CopyFiles", "write")
        /\ \E out \in copyWrite(store, root, race.q[p]) : Took(p, out)

RaceOpenStat ==
    \E p \in Sides :
        /\ At(p, "OpenFile", "exists")
        /\ \E out \in openStat(store, root, race.q[p]) : Took(p, out)

RaceOpenAllow ==
    \E p \in Sides :
        /\ At(p, "OpenFile", "allow")
        /\ \E out \in openAllow(store, root, race.q[p]) : Took(p, out)

RaceOpenOpen ==
    \E p \in Sides :
        /\ At(p, "OpenFile", "osopen")
        /\ \E out \in openOpen(store, root, race.q[p]) : Took(p, out)

NextRace ==
    \/ RaceCopyOpen
    \/ RaceCopyStat
    \/ RaceCopyRemove
    \/ RaceCopyMake
    \/ RaceCopyCreate
    \/ RaceCopyWrite
    \/ RaceOpenStat
    \/ RaceOpenAllow
    \/ RaceOpenOpen

SpecRace == InitRace /\ [][NextRace]_vars

----------------------------------------------------------------------------
(* Vocabulary of the properties *)

\* the error classes of the FileSystem contract
NotFound(err) == err \in {"ErrNotExist", "ENOENT"}
NotAllowed(err) == err = "ErrNotAllowed"
InvalidOperation(err) == err = "ErrInvalid"

FileSystemOps == {"Mkdir", "OpenFile", "RemoveAll", "Rename", "Stat"}

\* the decision map holds key allow with the boolean true
Granted(m, allow) == allow \in DOMAIN m /\ m[allow] = BoolVal(TRUE)

\* the decision the permission handler resolves for username and name n in st
Decision(st, username, n) ==
    allowed(st, root, username, [Action |-> AllowStat, Name |-> n])

\* a decision map was resolved, and it does / does not grant allow
Grants(st, username, n, allow) ==
    \E p \in {Decision(st, username, n)} : p.kind = "map" /\ Granted(p.m, allow)
Withholds(st, username, n, allow) ==
    \E p \in {Decision(st, username, n)} : p.kind = "map" /\ ~Granted(p.m, allow)

\* the last call's name(s), resolved
ResName == resolve(root, res.name)
ResName2 == resolve(root, res.name2)

ExistedBefore(n) == osStat(res.pre, n) \in {"dir", "file"}

\* C1: A well-formed path whose decision has Stat false is reported
\* not-found by OpenFile (any flags), Stat, RemoveAll and Rename-as-source,
\* whether or not the path exists in the store.
C1_HiddenIsNotFound ==
    (/\ res.op \in {"OpenFile", "Stat", "RemoveAll", "Rename"}
     /\ ~res.name.nul
     /\ Withholds(res.pre, res.username, ResName, AllowStat))
    => NotFound(res.err)

\* C2: On an existing well-formed path whose decision has Stat true and
\* the verb's permission false, the call returns not-allowed: OpenFile
\* read-only without Read, OpenFile for write without Write, RemoveAll
\* without Delete, Rename-as-source without Read.
C2_DeniedVerbIsNotAllowed ==
    (/\ ~res.name.nul
     /\ ExistedBefore(ResName)
     /\ Grants(res.pre, res.username, ResName, AllowStat)
     /\ \/ /\ res.op = "OpenFile" /\ ~WriteCapable(res.flag)
           /\ Withholds(res.pre, res.username, ResName, AllowRead)
        \/ /\ res.op = "OpenFile" /\ WriteCapable(res.flag)
           /\ Withholds(res.pre, res.username, ResName, AllowWrite)
        \/ /\ res.op = "RemoveAll"
           /\ Withholds(res.pre, res.username, ResName, AllowDelete)
        \/ /\ res.op = "Rename"
           /\ Withholds(res.pre, res.username, ResName, AllowRead))
    => NotAllowed(res.err)

\* a FileSystem method returned not-found, not-allowed or invalid-operation
Refused ==
    /\ res.op \in FileSystemOps
    /\ NotFound(res.err) \/ NotAllowed(res.err) \/ InvalidOperation(res.err)

\* st with the home directory of username, absent from st, made
Provisioned(st, username) ==
    LET home == pathJoin(CleanRoot(root), <<username>>) IN
    [n \in DOMAIN st \cup {home} |-> IF n = home THEN Directory ELSE st[n]]

\* C3, as stated: A FileSystem method that returns not-found,
\* not-allowed or invalid-operation leaves the store as it was, the
\* permission evaluation included.
C3_RefusedLeavesStore == Refused => store = res.pre

\* C3, amended: A FileSystem method that returns not-found, not-allowed
\* or invalid-operation leaves the store as it was, except that the claims
\* lookup made for the call may have created the caller's home directory
\* Root/username when it was absent.
C3_RefusedOnlyProvisions ==
    Refused =>
        \/ store = res.pre
        \/ /\ osStat(res.pre, pathJoin(CleanRoot(root), <<res.username>>)) = "ENOENT"
           /\ store = Provisioned(res.pre, res.username)

\* a refused call, on an existing file the caller may see but not delete,
\* whose claims lookup made the caller's home directory
C3_Witness ==
    /\ Refused
    /\ res.op = "RemoveAll" /\ NotAllowed(res.err)
    /\ ExistedBefore(ResName)
    /\ store # res.pre
    /\ store = Provisioned(res.pre, res.username)

\* C4: OpenFile creates, truncates or hands out a write-capable handle
\* only when the decision for the resource itself grants Stat and Write (the
\* resource exists) or the decision for its parent grants Create (it does
\* not), whatever the write-capable flags.
C4_WriteOpenIsAuthorized ==
    (/\ res.op = "OpenFile" /\ res.err = "nil"
     /\ WriteCapable(res.flag) \/ "O_CREATE" \in res.flag \/ "O_TRUNC" \in res.flag)
    => IF ExistedBefore(ResName)
       THEN /\ Grants(res.pre, res.username, ResName, AllowStat)
            /\ Grants(res.pre, res.username, ResName, AllowWrite)
       ELSE Grants(res.pre, res.username, pathDir(ResName), AllowCreate)

\* C5: Mkdir(name) creates the directory only if the decision resolved
\* for name's parent directory grants Create.
C5_MkdirAsksParent ==
    (res.op = "Mkdir" /\ res.err = "nil")
    => Grants(res.pre, res.username, pathDir(ResName), AllowCreate)

\* C6: RemoveAll on the storage root, and Rename from or to the storage
\* root, return invalid-operation whatever the decision, and leave the store
\* as it was (the caller's home directory, which the claims lookup of any
\* call may make, is not counted as a change here).
C6_RootIsInvalid ==
    (\/ res.op = "RemoveAll" /\ ~res.name.nul /\ ResName = CleanRoot(root)
     \/ /\ res.op = "Rename"
        /\ \/ ~res.name.nul /\ ResName = CleanRoot(root)
           \/ ~res.name.nul /\ ~res.name2.nul /\ ResName2 = CleanRoot(root))
    => /\ InvalidOperation(res.err)
       /\ store = res.pre \/ store = Provisioned(res.pre, res.username)

\* C7: Readdir on an opened directory returns exactly the children
\* whose own path's decision grants Stat to the caller.
C7_ReaddirFiltersPerChild ==
    (res.op = "Readdir" /\ res.err = "nil")
    => res.names =
           {c \in osReaddir(res.pre, handle.name) :
                Grants(res.pre, handle.username, pathJoin(handle.name, c),
                       AllowStat)}

\* C8: Allow(permissions, name) is true exactly when the decision map
\* holds key name with the boolean value true; an absent key, an empty map
\* and a value that is not a boolean give false.
C8_AllowIsBooleanTrue ==
    \A e \in allowLog : e.result = Granted(e.permissions, e.allow)

\* one call asked Allow about a key held with the boolean true, which it
\* granted, and about a key held with a string value, which it did not
C8_Witness ==
    /\ \E e \in allowLog :
           /\ e.allow \in DOMAIN e.permissions
           /\ e.permissions[e.allow].t = "string"
           /\ ~e.result
    /\ \E e \in allowLog :
           /\ e.allow \in DOMAIN e.permissions
           /\ e.permissions[e.allow] = BoolVal(TRUE)
           /\ e.result

\* a policy text the evaluator turns into a decision map
Evaluates(doc) ==
    doc \in {emptyPolicy, "open", "owner", "private", "statonly", "strs"}

\* C9: When the policy found for a call does not evaluate to a map
\* (malformed, no result), the permission handler returns a decision that
\* denies every permission and the call completes with not-found or
\* not-allowed.
C9_EvaluationFailureDenies ==
    \A e \in evalLog :
        ~Evaluates(e.doc) =>
            /\ e.kind = "map"
            /\ \A a \in {AllowCreate, AllowRead, AllowWrite, AllowDelete, AllowStat} :
                   ~Granted(e.m, a)
            /\ NotFound(res.err) \/ NotAllowed(res.err)

\* the sidecars policy resolution is to check for n, nearest first: n's own,
\* then the directory sidecar of each ancestor up to the storage root
RECURSIVE AncestorSidecars(_)
AncestorSidecars(dir) ==
    <<pathJoin(dir, DirSidecar("security.rego"))>>
    \o (IF dir = CleanRoot(root) THEN <<>> ELSE AncestorSidecars(pathDir(dir)))

PolicyChain(st, n) ==
    LET k == osStat(st, n) IN
    IF k = "dir" THEN AncestorSidecars(n)
    ELSE (IF k = "file"
          THEN <<pathJoin(pathDir(n),
                          FileSidecar(StrOf(pathBase(n)), "security.rego"))>>
          ELSE <<>>)
         \o AncestorSidecars(pathDir(n))

\* the text of the first file of the chain that exists, else the deny-all text
RECURSIVE FirstPolicy(_, _)
FirstPolicy(st, chain) ==
    IF chain = <<>> THEN emptyPolicy
    ELSE IF osStat(st, Head(chain)) = "file" THEN st[Head(chain)].data
    ELSE FirstPolicy(st, Tail(chain))

\* the store the policy lookup of the last call read: the store before the
\* call, with the caller's home directory made by the claims lookup
StoreRead(username) ==
    claimsInContext(res.pre, root, username,
                    [Action |-> AllowStat, Name |-> EmptyStr]).st

\* C10: Policy resolution for a path in the store returns the first
\* existing sidecar among the path's own and the directory sidecars of its
\* ancestors, nearest first, up to and including the storage root, the
\* deny-all text when there is none, and reads no other file.
C10_NearestPolicy ==
    \A e \in evalLog :
        IsPrefixName(CleanRoot(root), e.name) =>
            \E chain \in {PolicyChain(StoreRead(e.username), e.name)} :
                /\ e.kind # "diverge"
                /\ e.doc = FirstPolicy(StoreRead(e.username), chain)
                /\ \A i \in 1..Len(e.reads) :
                       \/ e.reads[i] = EmptyStr
                       \/ \E j \in 1..Len(chain) : chain[j] = e.reads[i]

\* C11: Policy resolution returns for every Root string and every path:
\* no invocation of the permission handler is left waiting for a regoOf that
\* recurses on the same directory for ever, and no file is looked up twice
\* in one resolution.
C11_RegoOfTerminates ==
    \A e \in evalLog :
        /\ e.kind # "diverge"
        /\ \A i, j \in 1..Len(e.reads) : e.reads[i] = e.reads[j] => i = j

\* a name whose last element begins with ".__"
IsMetadataName(n) ==
    n.segs # <<>> /\ HasPrefix(n.segs[Len(n.segs)], SidecarPrefix)

\* the properties set by Patch list p: the last value given to each name
RECURSIVE SetBy(_, _)
SetBy(p, acc) ==
    IF p = <<>> THEN acc
    ELSE IF Head(p).Props = <<>> THEN SetBy(Tail(p), acc)
    ELSE LET pr == Head(Head(p).Props)
             rest == <<[Head(p) EXCEPT !.Props = Tail(@)]>> \o Tail(p) IN
         SetBy(rest, [k \in DOMAIN acc \cup {pr.name} |->
                         IF k = pr.name THEN pr.value ELSE acc[k]])

\* C12: After a Patch that sets properties on a resource, DeadProps
\* returns each of them with the value last given, and every property the
\* resource held before and the Patch did not name is still returned with
\* its value.
C12_PatchThenDeadProps ==
    (props.op = "Patch" /\ ~IsMetadataName(handle.name))
    => \E want \in {SetBy(props.patch, DeadProps(props.pre, handle))} :
           /\ props.err = "nil"
           /\ DeadProps(store, handle) = want

\* an attachment name derived from a metadata file: ".__" + ".__..."
IsMetadataOfMetadata(n) ==
    /\ n.segs # <<>>
    /\ HasPrefix(n.segs[Len(n.segs)], SidecarPrefix \o SidecarPrefix)

\* C13: For a resource whose base name begins with ".__" nothing is
\* derived from or stored under an attachment name of it: NameFor yields no
\* attachment of an attachment, DeadProps is empty, Patch writes no property
\* file for it, and policy resolution looks up no policy file named after
\* it.
C13_NoMetadataOnMetadata ==
    /\ \A n \in DOMAIN store : ~IsMetadataOfMetadata(n)
    /\ \A e \in evalLog : \A i \in 1..Len(e.reads) :
           ~IsMetadataOfMetadata(e.reads[i])
    /\ (handle # NoFile /\ IsMetadataName(handle.name)) =>
           /\ DeadProps(store, handle) = EmptyMap
           /\ ~IsMetadataOfMetadata(NameFor(store, handle.name, "deadproperties.json"))

----------------------------------------------------------------------------
(* Tree operations *)

AllPermissions == {AllowCreate, AllowRead, AllowWrite, AllowDelete, AllowStat}

\* the decision for name n grants username every permission
GrantsAll(st, username, n) ==
    \A a \in AllPermissions : Grants(st, username, n, a)

\* the last tree call's source and destination, resolved
TreeSrc == resolve(root, tree.src)
TreeDst == resolve(root, tree.dst)

\* before the last tree call, its caller was granted every permission on
\* the source and everything beneath it, on the destination and on the
\* destination's parent
TreePermitted ==
    /\ \A m \in DOMAIN tree.pre :
           IsPrefixName(TreeSrc, m) => GrantsAll(tree.pre, tree.username, m)
    /\ GrantsAll(tree.pre, tree.username, TreeDst)
    /\ GrantsAll(tree.pre, tree.username, pathDir(TreeDst))

\* what st holds at name n and beneath it, by the names relative to n
Content(st, n) ==
    LET sub == {m \in DOMAIN st : IsPrefixName(n, m)}
        rel(m) == SubSeq(m.segs, Len(n.segs) + 1, Len(m.segs)) IN
    [x \in {rel(m) : m \in sub} |-> st[CHOOSE m \in sub : rel(m) = x]]

\* n exists in st
Present(st, n) == osStat(st, n) \in {"dir", "file"}

\* neither name lies at or beneath the other
Apart(a, b) == ~IsPrefixName(a, b) /\ ~IsPrefixName(b, a)

\* the next call repeats the last one
Repeated ==
    /\ tree'.op = tree.op /\ tree'.username = tree.username
    /\ tree'.src = tree.src /\ tree'.dst = tree.dst
    /\ tree'.overwrite = tree.overwrite /\ tree'.depth = tree.depth
    /\ tree'.recursion = tree.recursion

\* C14: CopyFiles(src, dst, overwrite = true) with infinite depth run
\* twice in succession by a caller holding every permission, with src present
\* and dst absent at first and neither inside the other: the first run
\* reports created, the second no-content, and after each run dst holds the
\* content of src.
C14_CopyTwice ==
    [][(/\ tree.op = "CopyFiles" /\ tree.overwrite
        /\ TreePermitted
        /\ tree.depth = InfiniteDepth
        /\ Present(tree.pre, TreeSrc) /\ ~Present(tree.pre, TreeDst)
        /\ Apart(TreeSrc, TreeDst)
        /\ Repeated)
       => /\ tree.status = StatusCreated
          /\ tree'.status = StatusNoContent
          /\ Content(store, TreeDst) = Content(store, TreeSrc)
          /\ Content(store', TreeDst) = Content(store', TreeSrc)]_vars

\* n exists and the decision for it grants username Stat
Visible(st, username, n) == Present(st, n) /\ Grants(st, username, n, AllowStat)

\* the last tree call left its source and its destination, with everything
\* beneath them, as they were
TreeUntouched ==
    /\ Content(store, TreeSrc) = Content(tree.pre, TreeSrc)
    /\ Content(store, TreeDst) = Content(tree.pre, TreeDst)

C16_MoveRenamesOnce ==
    (/\ tree.op = "MoveFiles"
     /\ Present(tree.pre, TreeSrc)
     /\ TreePermitted
     /\ Apart(TreeSrc, TreeDst)
     /\ tree.overwrite \/ ~Present(tree.pre, TreeDst))
    => /\ tree.status = IF Present(tree.pre, TreeDst) THEN StatusNoContent
                        ELSE StatusCreated
       /\ ~Present(store, TreeSrc)
       /\ Content(store, TreeDst) = Content(tree.pre, TreeSrc)
       /\ tree.renames = 1

\* the last tree call was an infinite-depth copy of a directory into one of
\* its own descendants
CopiedIntoItself ==
    /\ tree.op = "CopyFiles" /\ tree.depth = InfiniteDepth
    /\ osStat(tree.pre, TreeSrc) = "dir"
    /\ TreeSrc # TreeDst /\ IsPrefixName(TreeSrc, TreeDst)

\* C17: An infinite-depth CopyFiles of a directory into one of its own
\* descendants comes to an end; no nested call has a recursion argument above the
\* ceiling, a call entered at the ceiling opens nothing and returns
\* internal-error, and the copy then returns internal-error with
\* recursion-too-deep.
C17_CopyIntoItselfEnds ==
    CopiedIntoItself =>
        /\ tree.err # "diverge"
        /\ \A c \in tree.calls :
               /\ c.recursion <= RecursionCeiling
               /\ c.recursion = RecursionCeiling =>
                      /\ ~c.opened
                      /\ c.status = StatusInternalServerError
                      /\ tree.status = StatusInternalServerError
                      /\ tree.err = "ErrRecursionTooDeep"

----------------------------------------------------------------------------
(* The lock manager *)

\* the lock is an infinite-depth lock on /docs
DocsLock(l) == l.root = <<"docs">> /\ ~l.zeroDepth

\* C18: While an infinite-depth lock granted by Create is held (neither
\* released by Unlock nor expired), every Create for a lock at or beneath its
\* root, and every Create for an infinite-depth lock on an ancestor of its
\* root, fails with locked: so for /docs and a Create on /docs/sub.
C18_HeldLockExcludes ==
    (/\ locksys.op = "Create"
     /\ \E l \in locksys.pre :
            /\ ~l.zeroDepth /\ ~Expired(l, locksys.now)
            /\ \/ AtOrAbove(l.root, locksys.details.Root)
               \/ /\ ~locksys.details.ZeroDepth
                  /\ AtOrAbove(locksys.details.Root, l.root))
    => locksys.err = ErrLocked

\* a Create on /docs/sub was refused while an infinite-depth lock on /docs
\* was held; that lock has been released, and now a Create on /docs/sub has
\* succeeded
C18_Witness ==
    /\ locksys.op = "Create" /\ locksys.err = "nil"
    /\ locksys.details.Root = <<"docs", "sub">>
    /\ \E l \in locksys.released :
           /\ DocsLock(l)
           /\ \E r \in locksys.refused :
                  r.details.Root = <<"docs", "sub">> /\ l \in r.locks

----------------------------------------------------------------------------
(* Claims lookups side by side *)

\* both lookups have returned, and the principal had no home directory
BothLookedUp ==
    /\ \A p \in Requests : lookup.pc[p] = "done"
    /\ osStat(lookup.pre, homeOf(root, lookup.username)) = "ENOENT"

\* the claims request p gets when the two lookups run one after the other,
\* p first or p second
OneAfterTheOther(p) ==
    LET q == CHOOSE x \in Requests : x # p
        alone(a) == claimsInContext(lookup.pre, root, lookup.username, a)
        after(a, b) == claimsInContext(alone(b).st, root, lookup.username, a) IN
    {alone(lookup.action[p]).claims,
     after(lookup.action[p], lookup.action[q]).claims}

\* C19: When two claims lookups for the same principal, whose home
\* directory does not exist, run interleaved in any order, neither returns an
\* error, afterwards the store is the store before with the home directory
\* added, and each returns claims it returns when the two run one after the
\* other.
C19_LookupsInterleave ==
    BothLookedUp =>
        /\ \A p \in Requests : lookup.err[p] = "nil"
        /\ store = Provisioned(lookup.pre, lookup.username)
        /\ \A p \in Requests : lookup.claims[p] \in OneAfterTheOther(p)

\* both lookups found the home directory absent, and the os.Mkdir of one of
\* them failed because the other had made the directory
C19_Witness ==
    /\ BothLookedUp
    /\ \E p \in Requests : lookup.logged[p] = "EEXIST"

----------------------------------------------------------------------------
(* Malformed paths *)

\* C20: Mkdir, OpenFile, RemoveAll and Stat given a name holding a NUL,
\* and Rename given a source or a destination holding a NUL, return not-found
\* and leave the store as it was.
C20_MalformedIsNotFound ==
    (/\ res.op \in FileSystemOps
     /\ res.name.nul \/ (res.op = "Rename" /\ res.name2.nul))
    => NotFound(res.err) /\ store = res.pre

\* no policy file is attached to directory n or to a directory above it, up
\* to the storage root
Ungoverned(st, n) == FirstPolicy(st, AncestorSidecars(n)) = emptyPolicy

\* the last call named a top-level directory "/u"
TopLevel == ~res.name.nul /\ Len(SlashClean(res.name).segs) = 1

\* C21: With no policy document governing /u, Mkdir of the top-level
\* directory /u requested by u is not refused as not-allowed and the
\* directory exists afterwards, while the same Mkdir requested by another
\* principal does not succeed.
C21_SelfServiceMkdir ==
    (res.op = "Mkdir" /\ TopLevel /\ Ungoverned(res.pre, ResName))
    => IF SlashClean(res.name).segs[1] = <<res.username>>
       THEN ~NotAllowed(res.err) /\ osStat(store, ResName) = "dir"
       ELSE res.err # "nil"

----------------------------------------------------------------------------
(* Tree operations, continued *)

\* C22: CopyFiles of an existing src, a plain file or a directory, to a
\* dst whose parent directory does not exist, by a caller granted every
\* permission involved, returns conflict.
C22_MissingParentConflicts ==
    (/\ tree.op = "CopyFiles"
     /\ Present(tree.pre, TreeSrc)
     /\ ~Present(tree.pre, pathDir(TreeDst))
     /\ TreePermitted)
    => tree.status = StatusConflict

----------------------------------------------------------------------------
(* Walks *)

\* the calls of the visitor made by the last walk, and those made without
\* an error: the visits
WalkCalls == {walk.calls[i] : i \in 1..Len(walk.calls)}
WalkVisits == {c \in WalkCalls : c.err = "nil"}

\* request name b lies at or beneath request name a
Beneath(a, b) ==
    /\ Len(a.segs) <= Len(b.segs)
    /\ SubSeq(b.segs, 1, Len(a.segs)) = a.segs

\* how many levels b lies below the start of the last walk
LevelsDown(b) == Len(b.segs) - Len(walk.name.segs)

\* the depth of the last walk allows a node so many levels down
WithinDepth(levels) ==
    \/ walk.depth = InfiniteDepth
    \/ levels <= walk.depth

\* the request name of store name m, which lies at or beneath Root
RequestName(m) ==
    Name(SubSeq(m.segs, Len(CleanRoot(root).segs) + 1, Len(m.segs)))

\* the nodes beneath the start of the last walk that the walk is to visit:
\* within depth, visible to the caller like every node between the start and
\* them, and beneath no directory the visitor skips
ToVisit ==
    {n \in {RequestName(m) :
                m \in {x \in DOMAIN walk.pre :
                           IsPrefixName(resolve(root, walk.name), x)}} :
        /\ n # walk.name
        /\ WithinDepth(LevelsDown(n))
        /\ \A a \in {RequestName(m) : m \in DOMAIN walk.pre} :
               (Beneath(walk.name, a) /\ a # walk.name /\ Beneath(a, n)) =>
                   /\ Visible(walk.pre, walk.username, resolve(root, a))
                   /\ a # n => a \notin walk.walkFn.skip
        /\ walk.name \notin walk.walkFn.skip}

\* the visitor of the last walk let it go on: it handed no error back, and
\* answered skip-subtree for directories only
WentOn ==
    \A c \in WalkCalls :
        \/ c.ret = "nil"
        \/ /\ c.ret = SkipDir /\ c.err = "nil"
           /\ osStat(walk.pre, resolve(root, c.name)) = "dir"

C26_MoveAllOrNothing ==
    (/\ tree.op = "MoveFiles"
     /\ tree.status \in {StatusForbidden, StatusPreconditionFailed})
    => /\ Present(tree.pre, TreeDst)
          => /\ Present(store, TreeDst)
             /\ Content(store, TreeDst) = Content(tree.pre, TreeDst)
       /\ Present(tree.pre, TreeSrc) => Present(store, TreeSrc)

----------------------------------------------------------------------------
(* Requests side by side *)

\* the target of request p, resolved
Target(p) == resolve(root, race.q[p].dst)

\* no request asks for an existing target to be overwritten
NoOverwrite == \A p \in Sides : ~race.q[p].overwrite

\* C24: When two requests on the same target, absent at first, run side
\* by side with overwrite false (two CopyFiles, or a CopyFiles and an open
\* that creates the target), at most one CopyFiles returns created, and no
\* CopyFiles opens (and so truncates) a target that is in the store by then.
C24_CopyRaceCreatesOnce ==
    NoOverwrite =>
        /\ ~\A p \in Sides :
               race.q[p].op = "CopyFiles" /\ race.q[p].status = StatusCreated
        /\ \A p \in Sides :
               (race.q[p].op = "CopyFiles" /\ race.q[p].opened)
               => ~Present(race.q[p].seen, Target(p))

\* C25: Whatever the interleaving with a request that creates the target,
\* an OpenFile that returns a handle on a resource that is in the store at
\* the moment of its os.OpenFile was granted Stat by the decision for that
\* resource, and Write too when the flags open it for writing.
C25_OpenChecksWhatItOpens ==
    \A p \in Sides :
        (/\ race.q[p].op = "OpenFile"
         /\ race.q[p].opened
         /\ Present(race.q[p].seen, Target(p)))
        => /\ Grants(race.q[p].seen, race.q[p].username, Target(p), AllowStat)
           /\ WriteCapable(race.q[p].flag)
              => Grants(race.q[p].seen, race.q[p].username, Target(p),
                        AllowWrite)

====
